---------------------------- MODULE Spec2Model ----------------------------
(***************************************************************************)
(* basar: the cache engine (internal/cache) and the source fetcher         *)
(* (internal/fetcher).  The cache directory holds three files: the primary *)
(* artifact (banners.json), the metadata sidecar (meta.json) and the lock  *)
(* file (.lock), plus the temporary <primary>.tmp used by write.           *)
(*                                                                         *)
(* One tool invocation is a process p; every system call of an operation   *)
(* that touches a shared file is one step of p.  Spec interleaves the      *)
(* steps of concurrent invocations; SpecSeq runs one call after another,   *)
(* each from its invocation to its return, with the same steps.            *)
(* SpecFetch runs one call of FetchAllWithMeta goroutine by goroutine, and  *)
(* SpecMerge one call of Merge on every vector of the model's documents.   *)
(* SpecDir runs whole calls, write included, on a cache directory as       *)
(* earlier invocations may have left it.                                   *)
(* SpecCall runs one call step by step with its fetches goroutine by       *)
(* goroutine, and FairCall adds the fairness of the scheduler and of time. *)
(***************************************************************************)
EXTENDS Integers, Sequences, FiniteSets, TLC

VARIABLES
    lock,       \* the lock file
    primary,    \* the primary artifact (cfg.CacheFile)
    tmp,        \* cfg.CacheFile + ".tmp"
    sidecar,    \* meta.json
    fd,         \* per process: the file the descriptor opened by write is on
    pc,         \* per process: the step it is at
    loc,        \* per process: the locals of its call
    sources,    \* cfg.Sources
    procs,      \* the tool invocations that run
    fetchAll,   \* one call of FetchAllWithMeta, goroutine by goroutine
    mergeCall   \* one call of Merge: its argument and what it returned

vars == <<lock, primary, tmp, sidecar, fd, pc, loc, sources, procs, fetchAll,
          mergeCall>>

---------------------------------------------------------------------------
(* Time.  The code reads the clock only to compare time.Since(t) with a    *)
(* threshold, so the model keeps every timestamp t as its age, now - t, in *)
(* units of five minutes (the lock's staleness threshold), and stops       *)
(* counting an age at the larger of the two thresholds.                    *)

\* cfg.TTL, a bound of the model
TTL == 2

\* 5 * time.Minute
LockTimeout == 1

Older(age) ==
    IF age < (IF TTL > LockTimeout THEN TTL ELSE LockTimeout) THEN age + 1 ELSE age

(* Program constants *)

MergedVersion == 1
StatusOK == 200
StatusNotModified == 304

---------------------------------------------------------------------------
(* Values *)

AllProcs == {1, 2}
Banners == {"K1", "K2"}
BannerOrder == <<"K1", "K2">>
Urls == {"u1", "u2", "u3"}

\* Source strings, character by character.
SrcA == <<"h", "t", "t", "p", ":", "/", "/", "a">>
SrcB == <<"h", "t", "t", "p", ":", "/", "/", "b">>
SrcL == <<"/", "l">>
AllSources == {SrcA, SrcB, SrcL}

NoUrls == [b \in Banners |-> <<>>]

\* A *BannerData: nil, or a version and the Linux map (its keys, and the URL
\* list of each key).  A nil map and an empty map range and count alike.
NilDoc == [nil |-> TRUE, version |-> 0, keys |-> {}, urls |-> NoUrls]

Doc(v, ks, us) ==
    [nil |-> FALSE, version |-> v, keys |-> ks,
     urls |-> [b \in Banners |-> IF b \in ks THEN us[b] ELSE <<>>]]

\* The documents the upstream sources serve in this model.
DocA == Doc(1, {"K1"}, [b \in Banners |-> <<"u1", "u2">>])
DocB == Doc(1, {"K1", "K2"}, [b \in Banners |-> IF b = "K1" THEN <<"u2", "u3">> ELSE <<"u1">>])
DocC == Doc(2, {"K2"}, [b \in Banners |-> <<"u3", "u3">>])

\* A *SourceMeta.  UpdatedAt is set to time.Now() and never read again: the
\* model keeps it at the age 0 it has when it is set.
NilMeta == [nil |-> TRUE, ETag |-> "", LastModified |-> "", UpdatedAt |-> 0]
SourceMeta(e, lm) == [nil |-> FALSE, ETag |-> e, LastModified |-> lm, UpdatedAt |-> 0]

\* A MetaCache: the Sources map.
EmptyMetaCache == [keys |-> {}, rec |-> [s \in AllSources |-> NilMeta]]
MetaPut(m, s, sm) == [keys |-> m.keys \cup {s}, rec |-> [m.rec EXCEPT ![s] = sm]]

---------------------------------------------------------------------------
(* fetcher.Merge and appendUnique *)

InSeq(x, s) == \E i \in 1..Len(s) : s[i] = x

\* appendUnique that tests the new items against the existing ones only.
appendUnique_NoSeenUpdate(existing, new) ==
    existing \o SelectSeq(new, LAMBDA v : ~InSeq(v, existing))

RECURSIVE appendUnique(_, _)
appendUnique(existing, new) ==
    IF new = <<>> THEN existing
    ELSE appendUnique(IF InSeq(Head(new), existing) THEN existing
                      ELSE Append(existing, Head(new)),
                      Tail(new))

\* The loop body that takes one URL from each list only.
MergeOne_FirstUrlOnly(merged, data) ==
    IF data.nil THEN merged
    ELSE [merged EXCEPT
            !.keys = merged.keys \cup data.keys,
            !.urls = [b \in Banners |->
                        IF b \in data.keys
                        THEN appendUnique(merged.urls[b],
                                          IF data.urls[b] = <<>> THEN <<>>
                                          ELSE <<Head(data.urls[b])>>)
                        ELSE merged.urls[b]]]

\* The loop body that carries the version of the document over.
MergeOne_TakesVersion(merged, data) ==
    IF data.nil THEN merged
    ELSE [merged EXCEPT
            !.version = data.version,
            !.keys = merged.keys \cup data.keys,
            !.urls = [b \in Banners |->
                        IF b \in data.keys
                        THEN appendUnique(merged.urls[b], data.urls[b])
                        ELSE merged.urls[b]]]

MergeOne(merged, data) ==
    IF data.nil THEN merged
    ELSE [merged EXCEPT
            !.keys = merged.keys \cup data.keys,
            !.urls = [b \in Banners |->
                        IF b \in data.keys
                        THEN appendUnique(merged.urls[b], data.urls[b])
                        ELSE merged.urls[b]]]

RECURSIVE MergeFrom(_, _)
MergeFrom(merged, datasets) ==
    IF datasets = <<>> THEN merged
    ELSE MergeFrom(MergeOne(merged, Head(datasets)), Tail(datasets))

\* Merge that takes the version of its first document.
Merge_FirstVersion(datasets) ==
    MergeFrom(Doc(IF datasets = <<>> \/ Head(datasets).nil THEN MergedVersion
                  ELSE Head(datasets).version, {}, NoUrls),
              datasets)

Merge(datasets) == MergeFrom(Doc(MergedVersion, {}, NoUrls), datasets)

---------------------------------------------------------------------------
(* JSON: a file's bytes are a sequence of tokens.  An encoded document is  *)
(*   {  <version>  ( <banner> [ <url>* ] )*  }                             *)
(* with the banners in sorted key order, as encoding/json writes a map.    *)
(* json.Unmarshal takes the whole input for one document; a json.Decoder   *)
(* takes the first value of its stream.                                    *)

RECURSIVE EncodeEntries(_, _)
EncodeEntries(d, i) ==
    IF i > Len(BannerOrder) THEN <<>>
    ELSE LET b == BannerOrder[i]
         IN  (IF b \in d.keys THEN <<b, "[">> \o d.urls[b] \o <<"]">> ELSE <<>>)
             \o EncodeEntries(d, i + 1)

\* An encoder that writes the version of merged documents for any document.
Encode_FixedVersion(d) ==
    <<"{", ToString(MergedVersion)>> \o EncodeEntries(d, 1) \o <<"}">>

Encode(d) == <<"{", ToString(d.version)>> \o EncodeEntries(d, 1) \o <<"}">>

\* The position of the first "]" at or after i, or 0.
RECURSIVE FindClose(_, _)
FindClose(ts, i) ==
    IF i > Len(ts) THEN 0
    ELSE IF ts[i] = "]" THEN i
    ELSE FindClose(ts, i + 1)

Undecodable == [ok |-> FALSE, doc |-> NilDoc]

RECURSIVE DecodeEntries(_, _)
DecodeEntries(ts, acc) ==
    IF ts = <<>> THEN [ok |-> TRUE, doc |-> acc]
    ELSE IF Len(ts) < 3 \/ ts[1] \notin Banners \/ ts[2] # "[" THEN Undecodable
    ELSE LET j == FindClose(ts, 3)
         IN  IF j = 0 \/ \E k \in 3..(j - 1) : ts[k] \notin Urls THEN Undecodable
             ELSE DecodeEntries(
                    SubSeq(ts, j + 1, Len(ts)),
                    [acc EXCEPT !.keys = acc.keys \cup {ts[1]},
                                !.urls[ts[1]] = SubSeq(ts, 3, j - 1)])

\* json.Unmarshal into a BannerData: the whole input must be one document.
Decode(bytes) ==
    IF Len(bytes) < 3 \/ bytes[1] # "{" \/ bytes[Len(bytes)] # "}" THEN Undecodable
    ELSE IF \A v \in {1, 2} : ToString(v) # bytes[2] THEN Undecodable
    ELSE DecodeEntries(SubSeq(bytes, 3, Len(bytes) - 1),
                       Doc(CHOOSE v \in {1, 2} : ToString(v) = bytes[2], {}, NoUrls))

\* json.NewDecoder(r).Decode into a BannerData: the first JSON value of the
\* stream is read, to its closing brace, and what follows it is left unread.
DecoderDecode(bytes) ==
    LET ends == {k \in 1..Len(bytes) : bytes[k] = "}"}
    IN  IF ends = {} THEN Undecodable
        ELSE Decode(SubSeq(bytes, 1, CHOOSE k \in ends : \A m \in ends : k <= m))

\* A write of data at offset 0 of a file holding old: the bytes past the
\* written ones stay.
Overlay(old, data) ==
    IF Len(data) >= Len(old) THEN data
    ELSE data \o SubSeq(old, Len(data) + 1, Len(old))

HasPrefix(s, prefix) ==
    Len(s) >= Len(prefix) /\ SubSeq(s, 1, Len(prefix)) = prefix

\* json.MarshalIndent of a MetaCache: the sources in sorted key order, each
\* key a quoted string and each record its fields; etag and last_modified
\* are omitted when empty (omitempty).
RECURSIVE EncodeSources(_, _)
EncodeSources(m, i) ==
    IF i > 3 THEN <<>>
    ELSE LET s == <<SrcL, SrcA, SrcB>>[i]
             r == m.rec[s]
         IN  (IF s \in m.keys
              THEN <<"\"">> \o s \o <<"\"", "{">>
                   \o (IF r.ETag # "" THEN <<"etag", r.ETag>> ELSE <<>>)
                   \o (IF r.LastModified # "" THEN <<"last_modified", r.LastModified>>
                       ELSE <<>>)
                   \o <<"updated_at", "}">>
              ELSE <<>>)
             \o EncodeSources(m, i + 1)

EncodeMeta(m) == <<"{">> \o EncodeSources(m, 1) \o <<"}">>

\* The records of a MetaCache document, from its tokens.
RECURSIVE DecodeSources(_, _)
DecodeSources(ts, acc) ==
    IF ts = <<>> THEN [ok |-> TRUE, meta |-> acc]
    ELSE IF \A s \in AllSources : ~HasPrefix(ts, <<"\"">> \o s \o <<"\"", "{">>)
    THEN [ok |-> FALSE, meta |-> EmptyMetaCache]
    ELSE LET s == CHOOSE s \in AllSources : HasPrefix(ts, <<"\"">> \o s \o <<"\"", "{">>)
             ends == {k \in (Len(s) + 4)..Len(ts) : ts[k] = "}"}
             j == IF ends = {} THEN 0 ELSE CHOOSE k \in ends : \A n \in ends : k <= n
             f == IF j = 0 THEN <<>> ELSE SubSeq(ts, Len(s) + 4, j - 1)
             hasE == Len(f) >= 2 /\ f[1] = "etag"
             g == IF hasE THEN SubSeq(f, 3, Len(f)) ELSE f
             hasL == Len(g) >= 2 /\ g[1] = "last_modified"
             h == IF hasL THEN SubSeq(g, 3, Len(g)) ELSE g
         IN  IF j = 0 \/ h # <<"updated_at">>
             THEN [ok |-> FALSE, meta |-> EmptyMetaCache]
             ELSE DecodeSources(SubSeq(ts, j + 1, Len(ts)),
                                MetaPut(acc, s, SourceMeta(IF hasE THEN f[2] ELSE "",
                                                           IF hasL THEN g[2] ELSE "")))

\* json.Unmarshal into a MetaCache: the whole input must be one document.
DecodeMeta(bytes) ==
    IF Len(bytes) < 2 \/ bytes[1] # "{" \/ bytes[Len(bytes)] # "}"
    THEN [ok |-> FALSE, meta |-> EmptyMetaCache]
    ELSE DecodeSources(SubSeq(bytes, 2, Len(bytes) - 1), EmptyMetaCache)

---------------------------------------------------------------------------
(* The fetcher.  What a source answers is an input: for a remote source    *)
(* the outcome of the HTTP exchange, for a local one the file at the path. *)

NoErr == ""
Garbage == <<"<">>

Answer(k, st, body, e, lm) ==
    [kind |-> k, status |-> st, body |-> body, etag |-> e, lastmod |-> lm]

NetErr == Answer("neterr", 0, <<>>, "", "")
NotModified == Answer("http", StatusNotModified, <<>>, "", "")

\* What the server behind each remote source serves: the second one serves
\* its document under one of two validators.
Serves(source) ==
    IF source = SrcA THEN {Answer("http", StatusOK, Encode(DocA), "e1", "m1")}
    ELSE {Answer("http", StatusOK, Encode(DocB), "e2", ""),
          Answer("http", StatusOK, Encode(DocB), "e3", "m3")}

\* The last test is !strings.Contains(source, "://").
isLocalPath(source) ==
    \/ HasPrefix(source, <<"f", "i", "l", "e", ":", "/", "/">>)
    \/ HasPrefix(source, <<"/">>)
    \/ HasPrefix(source, <<"~">>)
    \/ ~\E i \in 1..(Len(source) - 2) : SubSeq(source, i, i + 2) = <<":", "/", "/">>

Fetched(data, meta, modified, err) ==
    [Data |-> data, Meta |-> meta, Modified |-> modified, Err |-> err]

\* fetchLocal: (data, err)
fetchLocal(answer) ==
    IF answer.kind = "nofile" THEN [Data |-> NilDoc, Err |-> "opening file"]
    ELSE IF ~DecoderDecode(answer.body).ok
    THEN [Data |-> NilDoc, Err |-> "decoding JSON"]
    ELSE [Data |-> DecoderDecode(answer.body).doc, Err |-> NoErr]

\* The conditional headers fetchHTTPWithMeta puts on its request.
Request(meta) ==
    [IfNoneMatch |-> IF meta.nil THEN "" ELSE meta.ETag,
     IfModifiedSince |-> IF meta.nil THEN "" ELSE meta.LastModified]

\* fetchHTTPWithMeta that returns no metadata on a 304.
fetchHTTPWithMeta_304DropsMeta(ctxDone, meta, answer) ==
    IF ctxDone \/ answer.kind = "neterr"
    THEN Fetched(NilDoc, NilMeta, FALSE, "executing request")
    ELSE IF answer.status = StatusNotModified
    THEN Fetched(NilDoc, NilMeta, FALSE, NoErr)
    ELSE IF answer.status # StatusOK
    THEN Fetched(NilDoc, NilMeta, FALSE, "unexpected status")
    ELSE IF ~DecoderDecode(answer.body).ok
    THEN Fetched(NilDoc, NilMeta, FALSE, "decoding response")
    ELSE Fetched(DecoderDecode(answer.body).doc,
                 SourceMeta(answer.etag, answer.lastmod), TRUE, NoErr)

\* fetchHTTPWithMeta: the request fails when ctx is done or the transport
\* does; otherwise the status decides.
fetchHTTPWithMeta(ctxDone, meta, answer) ==
    IF ctxDone \/ answer.kind = "neterr"
    THEN Fetched(NilDoc, NilMeta, FALSE, "executing request")
    ELSE IF answer.status = StatusNotModified
    THEN Fetched(NilDoc, meta, FALSE, NoErr)
    ELSE IF answer.status # StatusOK
    THEN Fetched(NilDoc, NilMeta, FALSE, "unexpected status")
    ELSE IF ~DecoderDecode(answer.body).ok
    THEN Fetched(NilDoc, NilMeta, FALSE, "decoding response")
    ELSE Fetched(DecoderDecode(answer.body).doc,
                 SourceMeta(answer.etag, answer.lastmod), TRUE, NoErr)

\* FetchWithMeta whose local branch gives up on a cancelled context.
FetchWithMeta_LocalHonoursCtx(ctxDone, source, meta, answer) ==
    IF ctxDone THEN Fetched(NilDoc, NilMeta, FALSE, "context canceled")
    ELSE IF isLocalPath(source)
    THEN IF fetchLocal(answer).Err # NoErr
         THEN Fetched(NilDoc, NilMeta, FALSE, fetchLocal(answer).Err)
         ELSE Fetched(fetchLocal(answer).Data, SourceMeta("", ""), TRUE, NoErr)
    ELSE fetchHTTPWithMeta(ctxDone, meta, answer)

FetchWithMeta(ctxDone, source, meta, answer) ==
    IF isLocalPath(source)
    THEN LET r == fetchLocal(answer)
         IN  IF r.Err # NoErr THEN Fetched(NilDoc, NilMeta, FALSE, r.Err)
             ELSE Fetched(r.Data, SourceMeta("", ""), TRUE, NoErr)
    ELSE fetchHTTPWithMeta(ctxDone, meta, answer)

\* The *SourceMeta FetchAllWithMeta hands to the fetch of source.
srcMetaOf(hasMeta, meta, source) ==
    IF hasMeta /\ source \in meta.keys THEN meta.rec[source] ELSE NilMeta

\* The answers a source can give to the request req: for a local source
\* the file at the path (none, no JSON, a document, a document with bytes
\* after it), for a remote one the exchange; a request on a done
\* context is never answered, and only a conditional request is answered
\* with 304.
Answers(source, ctxDone, req) ==
    IF isLocalPath(source)
    THEN { Answer("nofile", 0, <<>>, "", ""),
           Answer("file", 0, Garbage, "", ""),
           Answer("file", 0, Encode(DocC), "", ""),
           Answer("file", 0, Encode(DocC) \o Garbage, "", "") }
    ELSE IF ctxDone THEN {NetErr}
    ELSE {NetErr} \cup Serves(source)
         \cup (IF req.IfNoneMatch # "" \/ req.IfModifiedSince # ""
               THEN {NotModified} ELSE {})

\* FetchAllWithMeta: slot i holds the result for srcs[i].  hasMeta is FALSE
\* for FetchAll (meta == nil).
FetchAllWithMeta(ctxDone, srcs, hasMeta, meta, answers) ==
    [i \in 1..Len(srcs) |->
        LET source == srcs[i]
            srcMeta == srcMetaOf(hasMeta, meta, source)
            f == FetchWithMeta(ctxDone, source, srcMeta, answers[i])
        IN  [Source |-> source, Data |-> f.Data, Meta |-> f.Meta,
             Modified |-> f.Modified, Err |-> f.Err]]

FetchAll(ctxDone, srcs, answers) ==
    FetchAllWithMeta(ctxDone, srcs, FALSE, EmptyMetaCache, answers)

---------------------------------------------------------------------------
(* The files of the cache directory.  age is time.Since(ModTime).          *)

NoLock == [exists |-> FALSE, pid |-> 0, age |-> 0]
LockFile(p) == [exists |-> TRUE, pid |-> p, age |-> 0]

NoFile == [exists |-> FALSE, bytes |-> <<>>, age |-> 0]
File(bytes) == [exists |-> TRUE, bytes |-> bytes, age |-> 0]

\* meta.json: absent, or empty (just truncated), or the bytes that saveMeta
\* writes for a MetaCache.
NoSidecar == [exists |-> FALSE, bytes |-> <<>>]
Sidecar(meta) == [exists |-> TRUE, bytes |-> EncodeMeta(meta)]
TruncatedSidecar == [exists |-> TRUE, bytes |-> <<>>]

NoStats == [Valid |-> FALSE, Entries |-> 0, Size |-> 0, Age |-> 0]

\* The locals of a call (info is the FileInfo that the os.Stat of Stats
\* returned, afterUpdate says that the call of Stats follows an Update(ctx,
\* true) that returned nil, as it does in Setup); at "done", what it returned (err, updated, ok, stats) and what
\* it did.
InitLoc ==
    [op |-> "", force |-> FALSE, ctxDone |-> FALSE, overrode |-> FALSE,
     acquired |-> FALSE, fetched |-> FALSE, meta |-> EmptyMetaCache, results |-> <<>>, i |-> 0,
     datasets |-> <<>>, anyModified |-> FALSE,
     newMeta |-> EmptyMetaCache, merged |-> NilDoc, renamed |-> FALSE,
     err |-> NoErr, updated |-> FALSE, ok |-> FALSE, stats |-> NoStats,
     info |-> [size |-> 0, age |-> 0], afterUpdate |-> FALSE, fault |-> NoErr]

Call(name, force) == [InitLoc EXCEPT !.op = name, !.force = force]

ErrLocked == "cache is locked by another process"
ErrAllSourcesFailed == "all sources failed"
ErrRename == "renaming cache file"

\* The system calls of write that can fail (MkdirAll, OpenFile, the write of
\* Encode, Sync, Close, Rename), each by the error write wraps the failure in; the field fault of the locals names the one that fails
\* in this call, if any.
WriteFaults ==
    {"creating cache dir", "creating temp file", "encoding JSON", "syncing file",
     "closing file", ErrRename}
Killed == "killed"
Panicked == "panic"

\* The cache directory and the processes, as one value.
World ==
    [lock |-> lock, primary |-> primary, tmp |-> tmp, sidecar |-> sidecar,
     fd |-> fd, pc |-> pc, loc |-> loc]

At(W, p, label, l) == [W EXCEPT !.pc[p] = label, !.loc[p] = l]

\* What is left of the locals l when the call has returned: what it
\* returned (err, updated, ok, stats) and what it met on its way.
Returned(l) ==
    [InitLoc EXCEPT !.op = l.op, !.force = l.force, !.ctxDone = l.ctxDone,
                    !.overrode = l.overrode, !.acquired = l.acquired,
                    !.fetched = l.fetched,
                    !.results = l.results, !.anyModified = l.anyModified,
                    !.renamed = l.renamed, !.err = l.err, !.updated = l.updated,
                    !.ok = l.ok, !.stats = l.stats, !.afterUpdate = l.afterUpdate]

\* The call of p returns to its caller.
Returns(W, p, l) == At(W, p, "done", Returned(l))

---------------------------------------------------------------------------
(* Queries *)

\* IsValid that still accepts a primary whose age is TTL.
IsValid_AtThreshold(f) == f.exists /\ f.age <= TTL

\* Cache.IsValid on the primary file f.
IsValid(f) == f.exists /\ f.age < TTL

\* Cache.Path: ok
Path(f) == f.exists

\* Cache.URI: ok, which is the ok of Path.
URI(f) == Path(f)

\* Cache.Stats when its os.Stat and its os.ReadFile meet the same file f.
Stats(f) ==
    IF ~f.exists \/ ~Decode(f.bytes).ok THEN NoStats
    ELSE [Valid |-> TRUE, Entries |-> Cardinality(Decode(f.bytes).doc.keys),
          Size |-> Len(f.bytes), Age |-> f.age]

\* Cache.Stats: os.Stat(CacheFile), which gives the size and the
\* modification time of the file that is at the path now.
statsStat(W, p) ==
    LET l == [Call("stats", FALSE) EXCEPT
                !.afterUpdate = /\ W.pc[p] = "done" /\ W.loc[p].op = "update"
                                /\ W.loc[p].force /\ W.loc[p].err = NoErr]
    IN  IF ~W.primary.exists THEN Returns(W, p, l)
        ELSE At(W, p, "stats_read",
                [l EXCEPT !.info = [size |-> Len(W.primary.bytes),
                                    age |-> W.primary.age]])

\* Cache.Stats: os.ReadFile(CacheFile) and json.Unmarshal of the file that
\* is at the path now; Entries counts its banners, Size and AgeSeconds are
\* those of the file that os.Stat met.
statsRead(W, p) ==
    Returns(W, p,
            [W.loc[p] EXCEPT
               !.stats = IF ~Stats(W.primary).Valid THEN NoStats
                         ELSE [Stats(W.primary) EXCEPT !.Size = W.loc[p].info.size,
                                                       !.Age = W.loc[p].info.age]])

\* Cache.loadMeta: an empty MetaCache when the file is missing or does not
\* decode.
loadMeta(sc) ==
    IF ~sc.exists \/ ~DecodeMeta(sc.bytes).ok THEN EmptyMetaCache
    ELSE DecodeMeta(sc.bytes).meta

\* Cache.loadExistingBanners: nil when the primary is missing or undecodable.
loadExistingBanners(f) ==
    IF ~f.exists \/ ~Decode(f.bytes).ok THEN NilDoc ELSE Decode(f.bytes).doc

QueryIsValid(W, p) == Returns(W, p, [Call("isValid", FALSE) EXCEPT !.ok = IsValid(W.primary)])
QueryPath(W, p) == Returns(W, p, [Call("path", FALSE) EXCEPT !.ok = Path(W.primary)])

\* Cache.Stats from its call to its return, with no step of another process
\* in between.
QueryStats(W, p) ==
    IF statsStat(W, p).pc[p] = "done" THEN statsStat(W, p)
    ELSE statsRead(statsStat(W, p), p)

---------------------------------------------------------------------------
(* The steps of the operations: each takes the world W to the next one.    *)

\* Update that refreshes whatever the state of the cache.
Update_IgnoresValid(W, p, force) == At(W, p, "acq_stat", Call("update", force))

\* Update(ctx, force): the validity shortcut, then acquireLock.
Update(W, p, force) ==
    IF ~force /\ IsValid(W.primary)
    THEN Returns(W, p, Call("update", force))
    ELSE At(W, p, "acq_stat", Call("update", force))

\* SmartUpdate(ctx, verbose) starts with acquireLock.
SmartUpdate(W, p) == At(W, p, "acq_stat", Call("smart", FALSE))

\* Ensure that never updates.
Ensure_NeverUpdates(W, p) == Returns(W, p, Call("ensure", FALSE))

\* Ensure(ctx): IsValid, else Update(ctx, false), which tests IsValid again.
Ensure(W, p) ==
    IF IsValid(W.primary)
    THEN Returns(W, p, Call("ensure", FALSE))
    ELSE At(W, p, "ens_update", Call("ensure", FALSE))

EnsureUpdate(W, p) ==
    IF IsValid(W.primary)
    THEN Returns(W, p, W.loc[p])
    ELSE At(W, p, "acq_stat", W.loc[p])

\* Clear that takes a missing file for a failure.
Clear_FailsWhenAbsent(W, p) ==
    Returns([W EXCEPT !.primary = NoFile,
                      !.fd = [q \in AllProcs |->
                                IF W.fd[q] = "primary" THEN "orphan" ELSE W.fd[q]]],
            p, [Call("clear", FALSE) EXCEPT
                  !.err = IF W.primary.exists THEN NoErr ELSE "removing cache"])

\* Clear: os.Remove(CacheFile); a missing file is no error.
Clear(W, p) ==
    Returns([W EXCEPT !.primary = NoFile,
                      !.fd = [q \in AllProcs |->
                                IF W.fd[q] = "primary" THEN "orphan" ELSE W.fd[q]]],
            p, Call("clear", FALSE))

\* A lock exactly at the threshold still counts as held.
LockIsFresh_AtThreshold(lk) == lk.age <= LockTimeout

\* A lock that never goes stale.
LockIsFresh_Forever(lk) == TRUE

\* acquireLock's staleness test.
LockIsFresh(lk) == lk.age < LockTimeout

\* acquireLock taking over any lock it finds.
acquireLockStat_TakesOver(W, p) ==
    At(W, p, IF W.lock.exists THEN "acq_remove" ELSE "acq_write", W.loc[p])

\* A call that goes on without the lock when it finds the lock held.
acquireLockStat_IgnoresLocked(W, p) ==
    IF W.lock.exists /\ LockIsFresh(W.lock)
    THEN At(W, p, IF W.loc[p].op = "smart" THEN "load_meta" ELSE "fetch", W.loc[p])
    ELSE IF W.lock.exists
    THEN At(W, p, "acq_remove", W.loc[p])
    ELSE At(W, p, "acq_write", W.loc[p])

\* acquireLock: MkdirAll, then os.Stat(LockFile).
acquireLockStat(W, p) ==
    IF W.lock.exists /\ LockIsFresh(W.lock)
    THEN Returns(W, p, [W.loc[p] EXCEPT !.err = ErrLocked])
    ELSE IF W.lock.exists
    THEN At(W, p, "acq_remove", W.loc[p])
    ELSE At(W, p, "acq_write", W.loc[p])

\* acquireLock: os.Remove(LockFile) of a stale lock.
acquireLockRemove(W, p) ==
    At([W EXCEPT !.lock = NoLock], p, "acq_write",
       [W.loc[p] EXCEPT !.overrode = TRUE])

\* acquireLock: os.WriteFile(LockFile, pid); the caller defers releaseLock.
acquireLockWrite(W, p) ==
    At([W EXCEPT !.lock = LockFile(p)], p,
       IF W.loc[p].op = "smart" THEN "load_meta" ELSE "fetch",
       [W.loc[p] EXCEPT !.acquired = TRUE])

\* SmartUpdate: meta := c.loadMeta()
LoadMeta(W, p) ==
    At(W, p, "fetch", [W.loc[p] EXCEPT !.meta = loadMeta(W.sidecar)])

\* Only the first source counts.
Successes_FirstOnly(results) ==
    IF results = <<>> \/ Head(results).Err # NoErr THEN <<>>
    ELSE <<Head(results).Data>>

\* Update's loop over the results: the data of every result without error.
RECURSIVE Successes(_)
Successes(results) ==
    IF results = <<>> THEN <<>>
    ELSE (IF Head(results).Err # NoErr THEN <<>> ELSE <<Head(results).Data>>)
         \o Successes(Tail(results))

\* Update without its zero-success test.
UpdateFetched_NoZeroTest(W, p, results) ==
    At(W, p, "w_open",
       [W.loc[p] EXCEPT !.results = results, !.datasets = Successes(results),
                        !.merged = Merge(Successes(results))])

\* Update after FetchAll: the loop, the zero-success test and Merge.
UpdateFetched(W, p, results) ==
    LET datasets == Successes(results)
        l == [W.loc[p] EXCEPT !.results = results, !.datasets = datasets]
    IN  IF Len(datasets) = 0
        THEN At(W, p, "release", [l EXCEPT !.err = ErrAllSourcesFailed])
        ELSE At(W, p, "w_open", [l EXCEPT !.merged = Merge(datasets)])

\* SmartUpdate after FetchAllWithMeta: the loop starts.
SmartFetched(W, p, results) ==
    At(W, p, IF Len(results) = 0 THEN "save_meta" ELSE "loop",
       [W.loc[p] EXCEPT !.results = results, !.i = 1])

\* The fetches of the call, with the state of ctx and the sources' answers.
Fetch(W, p, srcs, ctxDone, answers) ==
    LET W1 == [W EXCEPT !.loc[p].ctxDone = ctxDone, !.loc[p].fetched = TRUE]
    IN  IF W.loc[p].op = "smart"
        THEN SmartFetched(W1, p, FetchAllWithMeta(ctxDone, srcs, TRUE,
                                                  W.loc[p].meta, answers))
        ELSE UpdateFetched(W1, p, FetchAll(ctxDone, srcs, answers))

\* The loop body with nothing contributed for an unmodified source.
SmartResult_DropsUnmodified(l, r, existing) ==
    IF r.Err # NoErr
    THEN IF r.Source \in l.meta.keys
         THEN [l EXCEPT !.newMeta = MetaPut(@, r.Source, l.meta.rec[r.Source])]
         ELSE l
    ELSE LET l1 == IF ~r.Meta.nil
                   THEN [l EXCEPT !.newMeta = MetaPut(@, r.Source, r.Meta)]
                   ELSE l
         IN  IF r.Modified /\ ~r.Data.nil
             THEN [l1 EXCEPT !.datasets = Append(@, r.Data), !.anyModified = TRUE]
             ELSE l1

\* The loop body that carries nothing over for a failed source.
SmartResult_ForgetsFailed(l, r, existing) ==
    IF r.Err # NoErr
    THEN l
    ELSE LET l1 == IF ~r.Meta.nil
                   THEN [l EXCEPT !.newMeta = MetaPut(@, r.Source, r.Meta)]
                   ELSE l
         IN  IF r.Modified /\ ~r.Data.nil
             THEN [l1 EXCEPT !.datasets = Append(@, r.Data), !.anyModified = TRUE]
             ELSE IF ~r.Modified /\ ~existing.nil
             THEN [l1 EXCEPT !.datasets = Append(@, existing)]
             ELSE l1

\* The loop body that keeps the record a source already had.
SmartResult_KeepsPriorMeta(l, r, existing) ==
    IF r.Err # NoErr
    THEN IF r.Source \in l.meta.keys
         THEN [l EXCEPT !.newMeta = MetaPut(@, r.Source, l.meta.rec[r.Source])]
         ELSE l
    ELSE LET l1 == IF r.Source \in l.meta.keys
                   THEN [l EXCEPT !.newMeta = MetaPut(@, r.Source, l.meta.rec[r.Source])]
                   ELSE IF ~r.Meta.nil
                   THEN [l EXCEPT !.newMeta = MetaPut(@, r.Source, r.Meta)]
                   ELSE l
         IN  IF r.Modified /\ ~r.Data.nil
             THEN [l1 EXCEPT !.datasets = Append(@, r.Data), !.anyModified = TRUE]
             ELSE IF ~r.Modified /\ ~existing.nil
             THEN [l1 EXCEPT !.datasets = Append(@, existing)]
             ELSE l1

\* SmartUpdate: the loop body for result r; existing is what
\* loadExistingBanners returns.
SmartResult(l, r, existing) ==
    IF r.Err # NoErr
    THEN IF r.Source \in l.meta.keys
         THEN [l EXCEPT !.newMeta = MetaPut(@, r.Source, l.meta.rec[r.Source])]
         ELSE l
    ELSE LET l1 == IF ~r.Meta.nil
                   THEN [l EXCEPT !.newMeta = MetaPut(@, r.Source, r.Meta)]
                   ELSE l
         IN  IF r.Modified /\ ~r.Data.nil
             THEN [l1 EXCEPT !.datasets = Append(@, r.Data), !.anyModified = TRUE]
             ELSE IF ~r.Modified /\ ~existing.nil
             THEN [l1 EXCEPT !.datasets = Append(@, existing)]
             ELSE l1

SmartLoop(W, p) ==
    LET l == SmartResult(W.loc[p], W.loc[p].results[W.loc[p].i],
                         loadExistingBanners(W.primary))
    IN  At(W, p, IF l.i = Len(l.results) THEN "save_meta" ELSE "loop",
           [l EXCEPT !.i = @ + 1])

\* saveMeta: os.WriteFile opens meta.json with O_TRUNC ...
saveMetaOpen(W, p) ==
    At([W EXCEPT !.sidecar = TruncatedSidecar], p, "save_meta_w", W.loc[p])

\* saveMeta that leaves the truncated file as it is.
saveMeta_NothingWritten(W, p) == At(W, p, "check_valid", W.loc[p])

\* ... and writes the marshalled MetaCache at offset 0 of the file it
\* opened, which another call may have written to since.
saveMeta(W, p) ==
    At([W EXCEPT !.sidecar = [exists |-> TRUE,
                              bytes |-> Overlay(@.bytes, EncodeMeta(W.loc[p].newMeta))]],
       p, "check_valid", W.loc[p])

\* SmartUpdate without the early return on a valid cache.
SmartDecide_NoValidTest(W, p) ==
    IF Len(W.loc[p].datasets) = 0
    THEN At(W, p, "release", [W.loc[p] EXCEPT !.err = ErrAllSourcesFailed])
    ELSE At(W, p, "w_open", [W.loc[p] EXCEPT !.merged = Merge(W.loc[p].datasets)])

\* SmartUpdate after saveMeta: the two early returns, or Merge.
SmartDecide(W, p) ==
    LET l == W.loc[p]
    IN  IF ~l.anyModified /\ IsValid(W.primary)
        THEN At(W, p, "release", l)
        ELSE IF Len(l.datasets) = 0
        THEN At(W, p, "release", [l EXCEPT !.err = ErrAllSourcesFailed])
        ELSE At(W, p, "w_open", [l EXCEPT !.merged = Merge(l.datasets)])

\* write returns to its caller with the locals l: Update and SmartUpdate
\* return in their turn, through the deferred releaseLock; write itself
\* does nothing to the lock file.
WriteReturns(W, p, l) ==
    IF l.op = "write" THEN Returns(W, p, l) ELSE At(W, p, "release", l)

\* write: MkdirAll and OpenFile(tmp, O_WRONLY|O_CREATE|O_TRUNC); when one
\* of them fails write returns the error.
writeOpen(W, p) ==
    IF W.loc[p].fault \in {"creating cache dir", "creating temp file"}
    THEN WriteReturns(W, p, [W.loc[p] EXCEPT !.err = W.loc[p].fault])
    ELSE At([W EXCEPT !.tmp = File(<<>>), !.fd[p] = "tmp"], p, "w_encode", W.loc[p])

\* write: enc.Encode(data) into the open file, f.Sync, f.Close.  When one
\* of them fails the file is closed and write goes on to os.Remove(tmp); a
\* failed Encode has written nothing, and the file keeps its bytes and its
\* modification time.
writeEncode(W, p) ==
    LET data == Encode(W.loc[p].merged)
        W1 == IF W.loc[p].fault = "encoding JSON"
              THEN [W EXCEPT !.fd[p] = "none"]
              ELSE [W EXCEPT
                      !.tmp = IF W.fd[p] = "tmp"
                              THEN File(Overlay(@.bytes, data)) ELSE @,
                      !.primary = IF W.fd[p] = "primary"
                                  THEN File(Overlay(@.bytes, data)) ELSE @,
                      !.fd[p] = "none"]
    IN  IF W.loc[p].fault \in {"encoding JSON", "syncing file", "closing file"}
        THEN At(W1, p, "w_remove", [W.loc[p] EXCEPT !.err = W.loc[p].fault])
        ELSE At(W1, p, "w_rename", W.loc[p])

\* write: os.Remove(tmp) after a failure removes what is at the path now,
\* and write returns the error.
writeRemove(W, p) ==
    WriteReturns([W EXCEPT !.tmp = NoFile,
                           !.fd = [q \in AllProcs |->
                                     IF @[q] = "tmp" THEN "orphan" ELSE @[q]]],
                 p, W.loc[p])

\* The open descriptors after tmp has been renamed over the primary.
FdAfterRename(f) ==
    [q \in AllProcs |-> IF f[q] = "tmp" THEN "primary"
                        ELSE IF f[q] = "primary" THEN "orphan" ELSE f[q]]

\* write whose rename leaves the modification time of the replaced file.
writeRename_KeepsOldMtime(W, p) ==
    IF W.tmp.exists
    THEN At([W EXCEPT !.primary = IF W.primary.exists
                                  THEN [W.tmp EXCEPT !.age = W.primary.age]
                                  ELSE W.tmp,
                      !.tmp = NoFile, !.fd = FdAfterRename(@)],
            p, "release",
            [W.loc[p] EXCEPT !.renamed = TRUE, !.updated = W.loc[p].anyModified])
    ELSE At(W, p, "w_remove", [W.loc[p] EXCEPT !.err = ErrRename])

\* write: os.Rename(tmp, CacheFile), and the return; when the rename fails
\* write goes on to os.Remove(tmp).
writeRename(W, p) ==
    IF W.tmp.exists /\ W.loc[p].fault # ErrRename
    THEN WriteReturns([W EXCEPT !.primary = W.tmp, !.tmp = NoFile,
                                !.fd = FdAfterRename(@)],
                      p, [W.loc[p] EXCEPT !.renamed = TRUE,
                                          !.updated = W.loc[p].anyModified])
    ELSE At(W, p, "w_remove", [W.loc[p] EXCEPT !.err = ErrRename])

\* releaseLock run only when the call succeeded.
releaseLock_OnSuccessOnly(l, lk) == IF l.err = NoErr THEN NoLock ELSE lk

\* The lock file after the deferred releaseLock of a call with locals l.
releaseLock(l, lk) == NoLock

\* The deferred c.releaseLock(), and the return.
Release(W, p) ==
    Returns([W EXCEPT !.lock = releaseLock(W.loc[p], @)], p, W.loc[p])

\* A panic in the locked section, between two system calls, unwinds
\* through the deferred release.
PanicPoints == {"loop", "check_valid", "w_open"}

Panic(W, p) == At(W, p, "release", [W.loc[p] EXCEPT !.err = Panicked])

\* The process is killed while its fetches run, or a fetch goroutine
\* panics (no goroutine recovers): nothing deferred runs, the files stay
\* as they are and the descriptors of the process are closed.
CrashPoints == {"fetch"}

Crash(W, p) == Returns([W EXCEPT !.fd[p] = "none"], p, [W.loc[p] EXCEPT !.err = Killed])

\* The step of p at its pc.
Step(W, p, srcs, ctxDone, answers) ==
    CASE W.pc[p] = "ens_update" -> EnsureUpdate(W, p)
      [] W.pc[p] = "acq_stat" -> acquireLockStat(W, p)
      [] W.pc[p] = "acq_remove" -> acquireLockRemove(W, p)
      [] W.pc[p] = "acq_write" -> acquireLockWrite(W, p)
      [] W.pc[p] = "load_meta" -> LoadMeta(W, p)
      [] W.pc[p] = "fetch" -> Fetch(W, p, srcs, ctxDone, answers)
      [] W.pc[p] = "loop" -> SmartLoop(W, p)
      [] W.pc[p] = "save_meta" -> saveMetaOpen(W, p)
      [] W.pc[p] = "save_meta_w" -> saveMeta(W, p)
      [] W.pc[p] = "check_valid" -> SmartDecide(W, p)
      [] W.pc[p] = "w_open" -> writeOpen(W, p)
      [] W.pc[p] = "w_encode" -> writeEncode(W, p)
      [] W.pc[p] = "w_rename" -> writeRename(W, p)
      [] W.pc[p] = "w_remove" -> writeRemove(W, p)
      [] W.pc[p] = "release" -> Release(W, p)

\* One move of the call of p: it is killed at a pc in killAt, panics at a
\* pc in panicAt, and takes its step otherwise.
Move(W, p, srcs, ctxDone, answers, killAt, panicAt) ==
    IF W.pc[p] \in killAt THEN Crash(W, p)
    ELSE IF W.pc[p] \in panicAt THEN Panic(W, p)
    ELSE Step(W, p, srcs, ctxDone, answers)

\* acquireLock as a whole: os.Stat, os.Remove of a stale lock, os.WriteFile.
RECURSIVE acquireLock(_, _)
acquireLock(W, p) ==
    IF W.pc[p] \notin {"acq_stat", "acq_remove", "acq_write"} THEN W
    ELSE CHOOSE R \in { acquireLock(V, p) :
                          V \in {Step(W, p, <<>>, FALSE, <<>>)} } : TRUE

\* The call of p run to its return.
RECURSIVE Run(_, _, _, _, _, _, _)
Run(W, p, srcs, ctxDone, answers, killAt, panicAt) ==
    IF W.pc[p] = "done" THEN W
    ELSE CHOOSE R \in { Run(V, p, srcs, ctxDone, answers, killAt, panicAt) :
                          V \in {Move(W, p, srcs, ctxDone, answers, killAt, panicAt)} } : TRUE

---------------------------------------------------------------------------
(* Time passes: the age of every file grows.                               *)

OlderFile(f) == IF f.exists THEN [f EXCEPT !.age = Older(@)] ELSE f

\* time.Since of a modification time that Stats holds grows as well.
Later(W) ==
    [W EXCEPT !.lock = OlderFile(@), !.primary = OlderFile(@), !.tmp = OlderFile(@),
              !.loc = [q \in AllProcs |->
                         IF W.pc[q] = "stats_read"
                         THEN [@[q] EXCEPT !.info.age = Older(@)]
                         ELSE @[q]]]

---------------------------------------------------------------------------
(* Actions *)

Becomes(W) ==
    /\ lock' = W.lock
    /\ primary' = W.primary
    /\ tmp' = W.tmp
    /\ sidecar' = W.sidecar
    /\ fd' = W.fd
    /\ pc' = W.pc
    /\ loc' = W.loc
    /\ UNCHANGED <<sources, procs, fetchAll, mergeCall>>

\* p can invoke the tool: concurrent invocations run one operation each
\* (and the query that run makes after it, see Then), a lone caller invokes
\* the tool again and again.
Idle(p) == p \in procs /\ (pc[p] = "idle" \/ (pc[p] = "done" /\ procs = {p}))

\* run, after the call of its operation has returned without error, goes on
\* in the same invocation: to Stats after --update and, when the cache was
\* updated, after --smart-update (both with -v), and to Path or URI after
\* Ensure.  Setup (--setup) calls Update(ctx, true), Stats with -v, and then
\* ConfigureVolatility3, which calls URI.
Then(p, query) ==
    /\ p \in procs
    /\ pc[p] = "done"
    /\ loc[p].err = NoErr
    /\ \/ query = "stats" /\ loc[p].op = "update" /\ loc[p].force
       \/ query = "stats" /\ loc[p].op = "smart" /\ loc[p].updated
       \/ query = "path" /\ loc[p].op = "ensure"
       \/ query = "path" /\ loc[p].op = "update" /\ loc[p].force
       \/ query = "path" /\ loc[p].op = "stats" /\ loc[p].afterUpdate

\* The answers to the fetches of a call with context state ctxDone and
\* metadata meta (hasMeta is FALSE for Update, which has none).
RECURSIVE AnswerVectors(_, _, _, _)
AnswerVectors(srcs, ctxDone, hasMeta, meta) ==
    IF srcs = <<>> THEN {<<>>}
    ELSE { <<a>> \o rest :
             a \in Answers(Head(srcs), ctxDone,
                           Request(srcMetaOf(hasMeta, meta, Head(srcs)))),
             rest \in AnswerVectors(Tail(srcs), ctxDone, hasMeta, meta) }

Tick == \E W \in {Later(World)} : Becomes(W)

\* The tool is invoked: the first step of an operation.
UpdateStart(p) == Idle(p) /\ \E force \in BOOLEAN : Becomes(Update(World, p, force))
SmartUpdateStart(p) == Idle(p) /\ Becomes(SmartUpdate(World, p))
EnsureStart(p) == Idle(p) /\ Becomes(Ensure(World, p))

\* The operations of a single step.
ClearCall(p) == Idle(p) /\ Becomes(Clear(World, p))
IsValidCall(p) == Idle(p) /\ Becomes(QueryIsValid(World, p))
PathCall(p) == (Idle(p) \/ Then(p, "path")) /\ Becomes(QueryPath(World, p))

\* Stats is two system calls on the primary, each a step.
StatsCall(p) == (Idle(p) \/ Then(p, "stats")) /\ Becomes(statsStat(World, p))
StatsRead(p) == pc[p] = "stats_read" /\ Becomes(statsRead(World, p))

\* One step of a running call.
FetchStep(p) ==
    /\ pc[p] = "fetch"
    /\ \E ctxDone \in BOOLEAN :
          \E answers \in AnswerVectors(sources, ctxDone, loc[p].op = "smart", loc[p].meta) :
             Becomes(Fetch(World, p, sources, ctxDone, answers))

EnsureUpdateStep(p) == pc[p] = "ens_update" /\ Becomes(EnsureUpdate(World, p))
AcquireStat(p) == pc[p] = "acq_stat" /\ Becomes(acquireLockStat(World, p))
AcquireRemove(p) == pc[p] = "acq_remove" /\ Becomes(acquireLockRemove(World, p))
AcquireWrite(p) == pc[p] = "acq_write" /\ Becomes(acquireLockWrite(World, p))
LoadMetaStep(p) == pc[p] = "load_meta" /\ Becomes(LoadMeta(World, p))
SmartLoopStep(p) == pc[p] = "loop" /\ Becomes(SmartLoop(World, p))
SaveMetaOpen(p) == pc[p] = "save_meta" /\ Becomes(saveMetaOpen(World, p))
SaveMetaWrite(p) == pc[p] = "save_meta_w" /\ Becomes(saveMeta(World, p))
SmartDecideStep(p) == pc[p] = "check_valid" /\ Becomes(SmartDecide(World, p))
WriteOpen(p) == pc[p] = "w_open" /\ Becomes(writeOpen(World, p))
WriteEncode(p) == pc[p] = "w_encode" /\ Becomes(writeEncode(World, p))
WriteRename(p) == pc[p] = "w_rename" /\ Becomes(writeRename(World, p))
WriteRemove(p) == pc[p] = "w_remove" /\ Becomes(writeRemove(World, p))

\* A system call of write is going to fail: the one p is at.
Fault(p) ==
    /\ loc[p].fault = NoErr
    /\ \E fault \in WriteFaults :
          /\ \/ pc[p] = "w_open" /\ fault \in {"creating cache dir", "creating temp file"}
             \/ pc[p] = "w_encode"
                /\ fault \in {"encoding JSON", "syncing file", "closing file"}
             \/ pc[p] = "w_rename" /\ fault = ErrRename
          /\ Becomes([World EXCEPT !.loc[p].fault = fault])
ReleaseStep(p) == pc[p] = "release" /\ Becomes(Release(World, p))

PanicStep(p) == pc[p] \in PanicPoints /\ Becomes(Panic(World, p))
CrashStep(p) == pc[p] \in CrashPoints /\ Becomes(Crash(World, p))

\* Whole calls, from the invocation to the return: the worlds a call of p
\* in the world W can end in.
UpdateOutcomes(W, p, force) ==
    UNION { { Run(Update(W, p, force), p, sources, ctxDone, answers, {}, {}) :
                answers \in AnswerVectors(sources, ctxDone, FALSE, EmptyMetaCache) } :
            ctxDone \in BOOLEAN }

SmartUpdateOutcomes(W, p) ==
    UNION { { Run(SmartUpdate(W, p), p, sources, ctxDone, answers, {}, {}) :
                answers \in AnswerVectors(sources, ctxDone, TRUE, loadMeta(W.sidecar)) } :
            ctxDone \in BOOLEAN }

EnsureOutcomes(W, p) ==
    UNION { { Run(Ensure(W, p), p, sources, ctxDone, answers, {}, {}) :
                answers \in AnswerVectors(sources, ctxDone, FALSE, EmptyMetaCache) } :
            ctxDone \in BOOLEAN }

\* The calls that are killed, and those that panic.
KilledOutcomes(W, p) ==
    { Run(V, p, sources, FALSE, <<>>, CrashPoints, {}) :
        V \in {Update(W, p, TRUE), SmartUpdate(W, p)} }

PanickedOutcomes(W, p) ==
    UNION { { Run(Update(W, p, TRUE), p, sources, FALSE, answers, {}, {at}) :
                answers \in AnswerVectors(sources, FALSE, FALSE, EmptyMetaCache) }
            \cup
            { Run(SmartUpdate(W, p), p, sources, FALSE, answers, {}, {at}) :
                answers \in AnswerVectors(sources, FALSE, TRUE, loadMeta(W.sidecar)) } :
            at \in PanicPoints }

UpdateCall(p) ==
    Idle(p) /\ \E force \in BOOLEAN : \E R \in UpdateOutcomes(World, p, force) : Becomes(R)

SmartUpdateCall(p) == Idle(p) /\ \E R \in SmartUpdateOutcomes(World, p) : Becomes(R)

EnsureCall(p) == Idle(p) /\ \E R \in EnsureOutcomes(World, p) : Becomes(R)

KilledCall(p) == Idle(p) /\ \E R \in KilledOutcomes(World, p) : Becomes(R)

PanickedCall(p) == Idle(p) /\ \E R \in PanickedOutcomes(World, p) : Becomes(R)

---------------------------------------------------------------------------
(* Specifications *)

Start ==
    /\ lock = NoLock
    /\ primary = NoFile
    /\ tmp = NoFile
    /\ sidecar = NoSidecar
    /\ fd = [p \in AllProcs |-> "none"]
    /\ pc = [p \in AllProcs |-> "idle"]
    /\ loc = [p \in AllProcs |-> InitLoc]

\* FetchAllWithMeta before it is called: no goroutine, no result vector.
NoFetchAll ==
    [phase |-> "idle", ctxDone |-> FALSE, hasMeta |-> FALSE, meta |-> EmptyMetaCache,
     w |-> <<>>, results |-> <<>>, order |-> <<>>, out |-> <<>>]

\* Merge before it is called.
NoMerge == [datasets |-> <<>>, out |-> NilDoc, called |-> FALSE]

\* Several invocations of the tool on one cache directory, step by step:
\* each process is one invocation, which runs one operation and exits.
Init ==
    /\ Start
    /\ fetchAll = NoFetchAll
    /\ mergeCall = NoMerge
    /\ procs = AllProcs
    /\ sources = <<SrcA>>

Next ==
    \/ Tick
    \/ \E p \in AllProcs :
          \/ UpdateStart(p) \/ SmartUpdateStart(p) \/ EnsureStart(p)
          \/ ClearCall(p) \/ IsValidCall(p) \/ PathCall(p)
          \/ StatsCall(p) \/ StatsRead(p)
          \/ EnsureUpdateStep(p)
          \/ AcquireStat(p) \/ AcquireRemove(p) \/ AcquireWrite(p)
          \/ LoadMetaStep(p) \/ FetchStep(p) \/ SmartLoopStep(p)
          \/ SaveMetaOpen(p) \/ SaveMetaWrite(p) \/ SmartDecideStep(p)
          \/ WriteOpen(p) \/ WriteEncode(p) \/ WriteRename(p) \/ WriteRemove(p)
          \/ ReleaseStep(p)
          \/ Fault(p) \/ PanicStep(p) \/ CrashStep(p)

Spec == Init /\ [][Next]_vars

\* One invocation at a time, each call run to its return, over the source
\* lists of the model.
InitSeq ==
    /\ Start
    /\ fetchAll = NoFetchAll
    /\ mergeCall = NoMerge
    /\ procs = {1}
    /\ sources \in {<<>>, <<SrcA, SrcB>>, <<SrcL>>}

NextSeq ==
    \/ Tick
    \/ \E p \in AllProcs :
          \/ UpdateCall(p) \/ SmartUpdateCall(p) \/ EnsureCall(p)
          \/ ClearCall(p) \/ IsValidCall(p) \/ PathCall(p)
          \/ StatsCall(p) \/ StatsRead(p)
          \/ KilledCall(p) \/ PanickedCall(p)

SpecSeq == InitSeq /\ [][NextSeq]_vars

---------------------------------------------------------------------------
(* FetchAllWithMeta goroutine by goroutine: one goroutine per source, each  *)
(* fetching its source and storing the Result in its own slot, in any      *)
(* order; the caller returns the vector after wg.Wait().                   *)

MaxSources == 3

\* make([]Result, len(sources)): every slot is the zero Result.
ZeroResult ==
    [Source |-> <<>>, Data |-> NilDoc, Meta |-> NilMeta, Modified |-> FALSE,
     Err |-> NoErr]

\* The Result literal of the goroutine for source, from what FetchWithMeta
\* returned.
Result(source, f) ==
    [Source |-> source, Data |-> f.Data, Meta |-> f.Meta,
     Modified |-> f.Modified, Err |-> f.Err]

\* A store into the first slot still empty: results in completion order.
workerStore_Appends(results, idx, r) ==
    LET k == CHOOSE k \in DOMAIN results :
                 /\ results[k] = ZeroResult
                 /\ \A j \in 1..(k - 1) : results[j] # ZeroResult
    IN  [results EXCEPT ![k] = r]

\* A store that marks every slot with the error of a failed fetch.
workerStore_SpreadsError(results, idx, r) ==
    IF r.Err # NoErr
    THEN [k \in DOMAIN results |->
            IF k = idx THEN r ELSE [results[k] EXCEPT !.Err = r.Err]]
    ELSE [results EXCEPT ![idx] = r]

\* results[idx] = Result{...}
workerStore(results, idx, r) == [results EXCEPT ![idx] = r]

\* FetchAllWithMeta is called, with nil metadata (FetchAll) or a MetaCache:
\* the vector is made and one goroutine per source is started.
FetchAllStart ==
    /\ fetchAll.phase = "idle"
    /\ \E ctxDone \in BOOLEAN, hasMeta \in BOOLEAN :
          \E meta \in IF hasMeta
                      THEN { EmptyMetaCache,
                             MetaPut(EmptyMetaCache, SrcA, SourceMeta("e1", "m1")),
                             MetaPut(MetaPut(EmptyMetaCache, SrcA, SourceMeta("e1", "m1")),
                                     SrcB, SourceMeta("e2", "")) }
                      ELSE {EmptyMetaCache} :
             fetchAll' = [NoFetchAll EXCEPT
                            !.phase = "running", !.ctxDone = ctxDone,
                            !.hasMeta = hasMeta, !.meta = meta,
                            !.w = [i \in 1..Len(sources) |->
                                     [pc |-> "fetch", ctx |-> FALSE, answer |-> NetErr,
                                      got |-> Fetched(NilDoc, NilMeta, FALSE, NoErr)]],
                            !.results = [i \in 1..Len(sources) |-> ZeroResult]]
    /\ UNCHANGED <<lock, primary, tmp, sidecar, fd, pc, loc, sources, procs, mergeCall>>

\* The caller's context is cancelled while the goroutines run.
Cancel ==
    /\ fetchAll.phase = "running"
    /\ ~fetchAll.ctxDone
    /\ fetchAll' = [fetchAll EXCEPT !.ctxDone = TRUE]
    /\ UNCHANGED <<lock, primary, tmp, sidecar, fd, pc, loc, sources, procs, mergeCall>>

\* Goroutine i looks up its source's metadata and calls FetchWithMeta; a
\* remote source may also answer with a status other than 200 and 304, or
\* with a body that is no JSON, or that goes on after its document.
WorkerFetch(i) ==
    /\ fetchAll.phase # "idle"
    /\ i \in DOMAIN fetchAll.w
    /\ fetchAll.w[i].pc = "fetch"
    /\ LET source == sources[i]
           srcMeta == srcMetaOf(fetchAll.hasMeta, fetchAll.meta, source)
       IN  \E a \in Answers(source, fetchAll.ctxDone, Request(srcMeta))
                      \cup (IF isLocalPath(source) \/ fetchAll.ctxDone
                            THEN {}
                            ELSE { Answer("http", 500, <<>>, "", ""),
                                   Answer("http", StatusOK, Garbage, "e9", ""),
                                   Answer("http", StatusOK, Encode(DocC) \o Garbage,
                                          "e9", "") }) :
              fetchAll' = [fetchAll EXCEPT
                             !.w[i] = [pc |-> "store", ctx |-> fetchAll.ctxDone,
                                       answer |-> a,
                                       got |-> FetchWithMeta(fetchAll.ctxDone, source,
                                                             srcMeta, a)]]
    /\ UNCHANGED <<lock, primary, tmp, sidecar, fd, pc, loc, sources, procs, mergeCall>>

\* A goroutine that stores its Result and never calls wg.Done().
WorkerStore_NoDone(i) ==
    /\ fetchAll.phase # "idle"
    /\ i \in DOMAIN fetchAll.w
    /\ fetchAll.w[i].pc = "store"
    /\ fetchAll' = [fetchAll EXCEPT
                      !.results = workerStore(@, i, Result(sources[i], fetchAll.w[i].got)),
                      !.order = Append(@, i),
                      !.w[i].pc = "stored"]
    /\ UNCHANGED <<lock, primary, tmp, sidecar, fd, pc, loc, sources, procs, mergeCall>>

\* Goroutine i stores its Result and is done (defer wg.Done()).  A
\* goroutine runs whether or not its caller is still waiting.
WorkerStore(i) ==
    /\ fetchAll.phase # "idle"
    /\ i \in DOMAIN fetchAll.w
    /\ fetchAll.w[i].pc = "store"
    /\ fetchAll' = [fetchAll EXCEPT
                      !.results = workerStore(@, i, Result(sources[i], fetchAll.w[i].got)),
                      !.order = Append(@, i),
                      !.w[i].pc = "done"]
    /\ UNCHANGED <<lock, primary, tmp, sidecar, fd, pc, loc, sources, procs, mergeCall>>

\* A return that does not wait for the goroutines.
FetchAllReturn_NoWait ==
    /\ fetchAll.phase = "running"
    /\ fetchAll' = [fetchAll EXCEPT !.phase = "returned", !.out = fetchAll.results]
    /\ UNCHANGED <<lock, primary, tmp, sidecar, fd, pc, loc, sources, procs, mergeCall>>

\* wg.Wait() returns when every goroutine is done; the vector is returned.
FetchAllReturn ==
    /\ fetchAll.phase = "running"
    /\ \A i \in DOMAIN fetchAll.w : fetchAll.w[i].pc = "done"
    /\ fetchAll' = [fetchAll EXCEPT !.phase = "returned", !.out = fetchAll.results]
    /\ UNCHANGED <<lock, primary, tmp, sidecar, fd, pc, loc, sources, procs, mergeCall>>

\* One call of FetchAllWithMeta, over source lists of up to MaxSources
\* sources, some with a source listed twice.
InitFetch ==
    /\ Start
    /\ procs = {}
    /\ sources \in { l \in { <<>>, <<SrcA>>, <<SrcA, SrcB>>, <<SrcB, SrcA>>,
                             <<SrcA, SrcA>>, <<SrcL, SrcA, SrcB>>,
                             <<SrcL, SrcA, SrcL, SrcA>> } :
                        Len(l) <= MaxSources }
    /\ fetchAll = NoFetchAll
    /\ mergeCall = NoMerge

NextFetch ==
    \/ FetchAllStart
    \/ Cancel
    \/ \E i \in 1..MaxSources : WorkerFetch(i) \/ WorkerStore(i)
    \/ FetchAllReturn

SpecFetch == InitFetch /\ [][NextFetch]_vars

---------------------------------------------------------------------------
(* Merge as a function: one call on a vector of up to MaxDocs documents,   *)
(* nil entries and documents of another version included.                  *)

MaxDocs == 3

\* Merge(datasets) is called and returns.
MergeCall ==
    /\ ~mergeCall.called
    /\ mergeCall' = [mergeCall EXCEPT !.out = Merge(mergeCall.datasets),
                                      !.called = TRUE]
    /\ UNCHANGED <<lock, primary, tmp, sidecar, fd, pc, loc, sources, procs, fetchAll>>

InitMerge ==
    /\ Start
    /\ procs = {}
    /\ sources = <<>>
    /\ fetchAll = NoFetchAll
    /\ \E n \in 0..MaxDocs :
          \E ds \in [1..n ->
                       { NilDoc, DocA, DocB, DocC }
                       \cup { Doc(1, ks, [b \in Banners |-> IF b = "K1" THEN k1 ELSE k2]) :
                                ks \in SUBSET Banners,
                                k1 \in { <<>>, <<"u1">>, <<"u2", "u1">>,
                                         <<"u1", "u1", "u3">> },
                                k2 \in { <<"u3", "u1">> } }] :
             mergeCall = [NoMerge EXCEPT !.datasets = ds]

SpecMerge == InitMerge /\ [][MergeCall]_vars

---------------------------------------------------------------------------
(* The calls on a cache directory as earlier invocations can have left it: *)
(* a primary that is missing, empty, no JSON or a document, written in the *)
(* past or stamped in the future, and a sidecar.                           *)

\* The documents write is called with.
WriteDocs ==
    { DocA, DocC, Merge(<<DocA, DocB>>), Doc(MergedVersion, {}, NoUrls),
      Doc(MergedVersion, {"K2"}, NoUrls) }

\* write(data) called on its own, as the tests of the package call it, in
\* the world W, with the system call fault failing (none for NoErr): the
\* world when it has returned, or, for a fault that names a step, when the
\* process has been killed before that step (after OpenFile, or after the
\* file has been written and closed).
write(W, p, data, fault) ==
    Run(At(W, p, "w_open",
           [Call("write", FALSE) EXCEPT !.merged = data, !.fault = fault]),
        p, <<>>, FALSE, <<>>, {fault} \cap {"w_encode", "w_rename"}, {})

WriteCall(p) ==
    /\ Idle(p)
    /\ \E data \in WriteDocs, fault \in {NoErr, "w_encode", "w_rename"} \cup WriteFaults :
          /\ fault \in {"w_encode", "w_rename"} => data = DocA
          /\ \E R \in {write(World, p, data, fault)} : Becomes(R)

InitDir ==
    /\ lock = NoLock
    /\ primary \in {NoFile}
                   \cup { [File(bytes) EXCEPT !.age = age] :
                            bytes \in {<<>>, Garbage, Encode(DocA)},
                            age \in {-1, 0, TTL} }
    /\ tmp = NoFile
    /\ sidecar \in {NoSidecar, Sidecar(MetaPut(EmptyMetaCache, SrcA, SourceMeta("e1", "m1")))}
    /\ fd = [p \in AllProcs |-> "none"]
    /\ pc = [p \in AllProcs |-> "idle"]
    /\ loc = [p \in AllProcs |-> InitLoc]
    /\ fetchAll = NoFetchAll
    /\ mergeCall = NoMerge
    /\ procs = {1}
    /\ sources \in {<<SrcA>>, <<SrcL>>}

NextDir ==
    \/ Tick
    \/ \E p \in AllProcs :
          \/ IsValidCall(p) \/ PathCall(p) \/ StatsCall(p) \/ StatsRead(p)
          \/ ClearCall(p)
          \/ EnsureCall(p) \/ UpdateCall(p) \/ SmartUpdateCall(p) \/ WriteCall(p)

SpecDir == InitDir /\ [][NextDir]_vars

---------------------------------------------------------------------------
(* One call with its fetches goroutine by goroutine: the steps of Spec for *)
(* one caller, where the fetch of the call is the run of FetchAllWithMeta  *)
(* of SpecFetch instead of one step.                                       *)

\* Update and SmartUpdate call FetchAll / FetchAllWithMeta: the vector is
\* made and the goroutines are started.
FetchBegin(p) ==
    /\ pc[p] = "fetch"
    /\ fetchAll.phase \in {"idle", "joined"}
    /\ \E ctxDone \in BOOLEAN :
          fetchAll' = [NoFetchAll EXCEPT
                         !.phase = "running", !.ctxDone = ctxDone,
                         !.hasMeta = (loc[p].op = "smart"), !.meta = loc[p].meta,
                         !.w = [i \in 1..Len(sources) |->
                                  [pc |-> "fetch", ctx |-> FALSE, answer |-> NetErr,
                                   got |-> Fetched(NilDoc, NilMeta, FALSE, NoErr)]],
                         !.results = [i \in 1..Len(sources) |-> ZeroResult]]
    /\ UNCHANGED <<lock, primary, tmp, sidecar, fd, pc, loc, sources, procs, mergeCall>>

\* The call of FetchAllWithMeta once the caller has its vector: the locals
\* of the goroutines that are done are gone.
Joined(f) ==
    [f EXCEPT !.phase = "joined", !.order = <<>>,
              !.w = [i \in DOMAIN f.w |->
                       IF f.w[i].pc = "done"
                       THEN [pc |-> "done", ctx |-> FALSE, answer |-> NetErr,
                             got |-> Fetched(NilDoc, NilMeta, FALSE, NoErr)]
                       ELSE f.w[i]]]

\* The caller goes on with the vector without waiting for FetchAllWithMeta
\* to return it.
FetchEnd_NoJoin(p) ==
    /\ pc[p] = "fetch"
    /\ fetchAll.phase = "running"
    /\ \E W1 \in {[World EXCEPT !.loc[p].ctxDone = fetchAll.ctxDone,
                                !.loc[p].fetched = TRUE]} :
          \E R \in {IF loc[p].op = "smart"
                     THEN SmartFetched(W1, p, fetchAll.results)
                     ELSE UpdateFetched(W1, p, fetchAll.results)} :
             /\ lock' = R.lock /\ primary' = R.primary /\ tmp' = R.tmp
             /\ sidecar' = R.sidecar /\ fd' = R.fd /\ pc' = R.pc /\ loc' = R.loc
    /\ fetchAll' = Joined(fetchAll)
    /\ UNCHANGED <<sources, procs, mergeCall>>

\* results := c.fetcher.FetchAll(...): the call goes on with the vector that
\* FetchAllWithMeta returned.
FetchEnd(p) ==
    /\ pc[p] = "fetch"
    /\ fetchAll.phase = "returned"
    /\ \E W1 \in {[World EXCEPT !.loc[p].ctxDone = fetchAll.ctxDone,
                                !.loc[p].fetched = TRUE]} :
          \E R \in {IF loc[p].op = "smart"
                     THEN SmartFetched(W1, p, fetchAll.out)
                     ELSE UpdateFetched(W1, p, fetchAll.out)} :
             /\ lock' = R.lock /\ primary' = R.primary /\ tmp' = R.tmp
             /\ sidecar' = R.sidecar /\ fd' = R.fd /\ pc' = R.pc /\ loc' = R.loc
    /\ fetchAll' = Joined(fetchAll)
    /\ UNCHANGED <<sources, procs, mergeCall>>

\* One call on a cache directory as earlier invocations left it: with or
\* without a primary, fresh or expired, published from the present sources
\* or from others, with or without a sidecar, and with or without the lock
\* file of an invocation that was killed.
InitCall ==
    /\ lock \in {NoLock, LockFile(2)}
    /\ primary \in {NoFile, File(Encode(DocA)), [File(Encode(DocA)) EXCEPT !.age = TTL],
                    [File(Encode(Merge(<<DocB, DocC>>))) EXCEPT !.age = TTL]}
    /\ tmp = NoFile
    /\ sidecar \in {NoSidecar, Sidecar(MetaPut(EmptyMetaCache, SrcA, SourceMeta("e1", "m1")))}
    /\ fd = [p \in AllProcs |-> "none"]
    /\ pc = [p \in AllProcs |-> "idle"]
    /\ loc = [p \in AllProcs |-> InitLoc]
    /\ fetchAll = NoFetchAll
    /\ mergeCall = NoMerge
    /\ procs = {1}
    /\ sources = <<SrcL, SrcA>>

\* The steps of the call of p after its invocation.
CallStep(p) ==
    \/ EnsureUpdateStep(p)
    \/ AcquireStat(p) \/ AcquireRemove(p) \/ AcquireWrite(p)
    \/ LoadMetaStep(p) \/ FetchBegin(p) \/ FetchEnd(p) \/ SmartLoopStep(p)
    \/ SaveMetaOpen(p) \/ SaveMetaWrite(p) \/ SmartDecideStep(p)
    \/ WriteOpen(p) \/ WriteEncode(p) \/ WriteRename(p) \/ WriteRemove(p)
    \/ ReleaseStep(p)

NextCall ==
    \/ Tick
    \/ Cancel
    \/ FetchAllReturn
    \/ \E i \in 1..MaxSources : WorkerFetch(i) \/ WorkerStore(i)
    \/ \E p \in AllProcs :
          \/ pc[p] = "idle" /\ (UpdateStart(p) \/ SmartUpdateStart(p) \/ EnsureStart(p))
          \/ CallStep(p)
          \/ Fault(p)

SpecCall == InitCall /\ [][NextCall]_vars

\* The same with time that passes, a caller that takes its next step, and
\* goroutines that the Go scheduler runs.
FairCall ==
    /\ SpecCall
    /\ WF_vars(Tick)
    /\ WF_vars(FetchAllReturn)
    /\ \A p \in AllProcs : WF_vars(CallStep(p))
    /\ \A i \in 1..MaxSources : WF_vars(WorkerFetch(i)) /\ WF_vars(WorkerStore(i))

---------------------------------------------------------------------------
(* Properties *)

\* The section of Update and SmartUpdate between the return of acquireLock
\* and the deferred releaseLock.
LockedSection == {"load_meta", "fetch", "loop", "save_meta", "save_meta_w",
                  "check_valid", "w_open", "w_encode", "w_rename", "w_remove",
                  "release"}

Holding(p) == pc[p] \in LockedSection

\* C1: mutual exclusion.  In every interleaving of update and smartUpdate
\* calls of two processes on one cache directory, at most one process at a
\* time is between its successful acquireLock and its releaseLock.
C1_MutualExclusion ==
    \A p, q \in procs : (p # q /\ Holding(p)) => ~Holding(q)

\* The bytes are the complete encoding of one document.
Complete(bytes) == Decode(bytes).ok /\ Encode(Decode(bytes).doc) = bytes

\* C2: no torn primary.  At every instant the primary path either does not
\* exist or holds the complete bytes of one document, so that a reader
\* (Stats, IsValid, Path) never meets a partially written primary.
C2_NoTornPrimary == primary.exists => Complete(primary.bytes)

C4_AcquireLock ==
    \A p \in procs :
        Idle(p) =>
            LET R == acquireLock(SmartUpdate(World, p), p)
            IN  IF lock.exists /\ lock.age < LockTimeout
                THEN /\ R.pc[p] = "done"
                     /\ R.loc[p].err = ErrLocked
                     /\ ~R.loc[p].acquired
                ELSE /\ R.pc[p] # "done"
                     /\ R.loc[p].err = NoErr
                     /\ R.loc[p].acquired
                     /\ R.lock = [exists |-> TRUE, pid |-> p, age |-> 0]

\* A call has found a lock that had reached the threshold, has removed it
\* and has acquired the lock.
C4_Witness ==
    \E p \in procs :
        pc[p] = "done" /\ loc[p].overrode /\ loc[p].acquired /\ loc[p].fetched

\* C5: fresh-lock rejection.  update(force=true) and smartUpdate called
\* while a non-stale lock file exists return Locked, start no fetch, and
\* leave the lock file, the primary and the sidecar as they are.
C5_FreshLockRejection ==
    \A p \in procs :
        (Idle(p) /\ lock.exists /\ lock.age < LockTimeout) =>
            \A R \in UpdateOutcomes(World, p, TRUE) \cup SmartUpdateOutcomes(World, p) :
                /\ R.loc[p].err = ErrLocked
                /\ ~R.loc[p].fetched
                /\ R.lock = lock
                /\ R.primary = primary
                /\ R.sidecar = sidecar
                /\ R.tmp = tmp

\* smartUpdate has returned Locked on a cache that has a lock, a primary
\* and a sidecar.
C5_Witness ==
    \E p \in procs :
        /\ pc[p] = "done" /\ loc[p].op = "smart" /\ loc[p].err = ErrLocked
        /\ ~loc[p].fetched
        /\ lock.exists /\ primary.exists /\ sidecar.exists

\* The documents of the results without error, in the order of the sources.
SuccessfulDocs(results) ==
    LET good == SelectSeq(results, LAMBDA r : r.Err = NoErr)
    IN  [i \in 1..Len(good) |-> good[i].Data]

BannersOf(docs) == UNION { docs[i].keys : i \in DOMAIN docs }

\* C6: partial failure under update.  When update(force=true) runs and at
\* least one fetch succeeds, it returns success, the published primary is
\* the merge of exactly the successfully fetched documents in source order,
\* and Stats().Entries is the number of distinct banners of those documents.
C6_PartialFailure ==
    \A p \in procs :
        Idle(p) =>
            \A R \in UpdateOutcomes(World, p, TRUE) :
                LET l == R.loc[p]
                IN  (l.acquired /\ \E i \in DOMAIN l.results : l.results[i].Err = NoErr)
                    => /\ l.err = NoErr
                       /\ R.primary.exists
                       /\ R.primary.bytes = Encode(Merge(SuccessfulDocs(l.results)))
                       /\ Stats(R.primary).Valid
                       /\ Stats(R.primary).Entries
                             = Cardinality(BannersOf(SuccessfulDocs(l.results)))

\* A forced update has returned success with its first source failed and
\* its second fetched, and the primary holds the second's document only.
C6_Witness ==
    \E p \in procs :
        /\ pc[p] = "done" /\ loc[p].op = "update" /\ loc[p].force
        /\ loc[p].err = NoErr /\ loc[p].renamed
        /\ Len(loc[p].results) = 2
        /\ loc[p].results[1].Err # NoErr
        /\ loc[p].results[2].Err = NoErr
        /\ primary.bytes = Encode(Merge(<<loc[p].results[2].Data>>))

\* C7: all sources failed.  When update(force=true) runs and every source
\* fails, or the source list is empty, it returns 'all sources failed',
\* publishes nothing, and the primary is exactly as before the call.
C7_AllSourcesFailed ==
    \A p \in procs :
        Idle(p) =>
            \A R \in UpdateOutcomes(World, p, TRUE) :
                LET l == R.loc[p]
                IN  (l.acquired /\ \A i \in DOMAIN l.results : l.results[i].Err # NoErr)
                    => /\ l.err = ErrAllSourcesFailed
                       /\ ~l.renamed
                       /\ R.primary = primary
                       /\ R.tmp = tmp

\* A forced update whose two sources failed has returned the error, and
\* the primary it found is still there with its age.
C7_Witness ==
    \E p \in procs :
        /\ pc[p] = "done" /\ loc[p].op = "update" /\ loc[p].force
        /\ loc[p].acquired /\ loc[p].err = ErrAllSourcesFailed
        /\ Len(loc[p].results) = 2
        /\ primary.exists /\ primary.age > 0

\* The prior primary f holds data that can be used.
Usable(f) == f.exists /\ Decode(f.bytes).ok

Failed(r) == r.Err # NoErr
Changed(r) == r.Err = NoErr /\ r.Modified
Unchanged(r) == r.Err = NoErr /\ ~r.Modified

\* The worlds any call of update or smartUpdate by p can end in.
AnyUpdateOutcomes(p) ==
    UpdateOutcomes(World, p, TRUE) \cup UpdateOutcomes(World, p, FALSE)
        \cup SmartUpdateOutcomes(World, p)

\* C8 as stated: apart from Locked and persist errors, update and
\* smartUpdate return an error only when every source's fetch failed and no
\* prior primary data is usable.
C8_ErrorOnlyWithoutPrior ==
    \A p \in procs :
        Idle(p) =>
            \A R \in AnyUpdateOutcomes(p) :
                LET l == R.loc[p]
                IN  l.err \notin {NoErr, ErrLocked, ErrRename}
                    => /\ \A i \in DOMAIN l.results : Failed(l.results[i])
                       /\ ~Usable(primary)

\* C8, amended: apart from Locked and persist errors, update returns an
\* error exactly when no fetch succeeded (every source failed, or there is
\* no source), whether or not a prior primary exists; smartUpdate returns
\* an error exactly when no source was modified, the primary is absent or
\* stale, and no unmodified (304) source found a decodable primary.
C8_ErrorExactly ==
    \A p \in procs :
        Idle(p) =>
            \A R \in AnyUpdateOutcomes(p) :
                LET l == R.loc[p]
                    rs == l.results
                IN  /\ l.err \in {NoErr, ErrLocked, ErrAllSourcesFailed}
                    /\ (l.op = "update" /\ l.acquired) =>
                          (l.err = ErrAllSourcesFailed
                             <=> \A i \in DOMAIN rs : Failed(rs[i]))
                    /\ (l.op = "smart" /\ l.acquired) =>
                          (l.err = ErrAllSourcesFailed
                             <=> /\ \A i \in DOMAIN rs : ~Changed(rs[i])
                                 /\ ~(primary.exists /\ primary.age < TTL)
                                 /\ ~(Usable(primary)
                                        /\ \E i \in DOMAIN rs : Unchanged(rs[i])))

\* A forced update has returned 'all sources failed' although a decodable
\* primary exists.
C8_Witness ==
    \E p \in procs :
        /\ pc[p] = "done" /\ loc[p].op = "update" /\ loc[p].force
        /\ loc[p].err = ErrAllSourcesFailed
        /\ Len(loc[p].results) > 0
        /\ Usable(primary)

\* What the result r contributes to the merge of smartUpdate, f being the
\* primary of before the call.
Contribution(r, f) ==
    IF Failed(r) THEN <<>>
    ELSE IF r.Modified THEN <<r.Data>>
    ELSE IF Usable(f) THEN <<Decode(f.bytes).doc>>
    ELSE <<>>

RECURSIVE Contributions(_, _)
Contributions(results, f) ==
    IF results = <<>> THEN <<>>
    ELSE Contribution(Head(results), f) \o Contributions(Tail(results), f)

\* C9: smartUpdate with at least one modified source replaces the primary
\* by the merge of the contributing documents in source order (a modified
\* source its new document, a 304 source the cached primary document, a
\* failed source nothing) and returns (true, no error).
C9_SmartUpdateModified ==
    \A p \in procs :
        Idle(p) =>
            \A R \in SmartUpdateOutcomes(World, p) :
                LET l == R.loc[p]
                IN  (l.acquired /\ \E i \in DOMAIN l.results : Changed(l.results[i]))
                    => /\ l.err = NoErr
                       /\ l.updated
                       /\ l.renamed
                       /\ R.primary.exists
                       /\ R.primary.age = 0
                       /\ R.primary.bytes
                             = Encode(Merge(Contributions(l.results, primary)))
                       /\ ~R.tmp.exists

\* smartUpdate has returned true with its first source modified and its
\* second answering 304, and the primary holds more banners than the first
\* source's document.
C9_Witness ==
    \E p \in procs :
        /\ pc[p] = "done" /\ loc[p].op = "smart" /\ loc[p].updated
        /\ loc[p].err = NoErr
        /\ Len(loc[p].results) = 2
        /\ Changed(loc[p].results[1])
        /\ Unchanged(loc[p].results[2])
        /\ Usable(primary)
        /\ Decode(primary.bytes).doc.keys # loc[p].results[1].Data.keys

\* C10: after a smartUpdate in which every remote source answered 304 the
\* primary is not rewritten: its bytes and its modification time are those
\* of before the call, whether the primary was fresh or stale.
C10_NotRewrittenOn304 ==
    \A p \in procs :
        Idle(p) =>
            \A R \in SmartUpdateOutcomes(World, p) :
                LET l == R.loc[p]
                IN  (/\ l.acquired
                     /\ Len(l.results) > 0
                     /\ \A i \in DOMAIN l.results : Unchanged(l.results[i]))
                    => R.primary = primary

\* C11: when smartUpdate finds no source modified and the primary is still
\* fresh, it returns (false, no error) and leaves the primary's bytes and
\* mtime unchanged, even if some or all sources failed; the sidecar is
\* still rewritten.
C11_SmartUpdateNoChange ==
    \A p \in procs :
        Idle(p) =>
            \A R \in SmartUpdateOutcomes(World, p) :
                LET l == R.loc[p]
                IN  (/\ l.acquired
                     /\ \A i \in DOMAIN l.results : ~Changed(l.results[i])
                     /\ primary.exists /\ primary.age < TTL)
                    => /\ l.err = NoErr
                       /\ ~l.updated
                       /\ ~l.renamed
                       /\ R.primary = primary
                       /\ R.sidecar.exists
                       /\ R.sidecar.bytes # <<>>
                       /\ loadMeta(R.sidecar).keys
                             = { l.results[i].Source : i \in
                                   { j \in DOMAIN l.results :
                                       \/ Failed(l.results[j])
                                            /\ l.results[j].Source \in loadMeta(sidecar).keys
                                       \/ ~Failed(l.results[j])
                                            /\ ~l.results[j].Meta.nil } }

\* smartUpdate has returned (false, no error) with one source failed and
\* the other unmodified, on a fresh primary that is older than the call.
C11_Witness ==
    \E p \in procs :
        /\ pc[p] = "done" /\ loc[p].op = "smart" /\ loc[p].acquired
        /\ loc[p].err = NoErr /\ ~loc[p].updated /\ ~loc[p].renamed
        /\ Len(loc[p].results) = 2
        /\ Failed(loc[p].results[1])
        /\ Unchanged(loc[p].results[2])
        /\ primary.exists /\ primary.age > 0 /\ primary.age < TTL
        /\ sidecar.exists /\ sidecar.bytes # <<>>

\* C12: every source whose fetch fails during smartUpdate and that had a
\* record in the prior sidecar has the same record (etag, last-modified,
\* updated-at) in the sidecar that this smartUpdate writes.
C12_ValidatorPreserved ==
    \A p \in procs :
        Idle(p) =>
            \A R \in SmartUpdateOutcomes(World, p) :
                LET l == R.loc[p]
                IN  \A i \in DOMAIN l.results :
                        (/\ Failed(l.results[i])
                         /\ sources[i] \in loadMeta(sidecar).keys)
                        => /\ R.sidecar.exists
                           /\ R.sidecar.bytes # <<>>
                           /\ l.results[i].Source = sources[i]
                           /\ sources[i] \in loadMeta(R.sidecar).keys
                           /\ loadMeta(R.sidecar).rec[sources[i]]
                                 = loadMeta(sidecar).rec[sources[i]]

\* smartUpdate has returned after the fetch of the first source failed, and
\* the sidecar it wrote holds that source's validators.
C12_Witness ==
    \E p \in procs :
        /\ pc[p] = "done" /\ loc[p].op = "smart" /\ loc[p].acquired
        /\ Len(loc[p].results) = 2
        /\ Failed(loc[p].results[1])
        /\ sidecar.exists /\ sidecar.bytes # <<>>
        /\ loc[p].results[1].Source \in loadMeta(sidecar).keys
        /\ loadMeta(sidecar).rec[loc[p].results[1].Source].ETag # ""

\* C13: under smartUpdate, for each configured source, a 200 answer that
\* decodes replaces the source's sidecar record with the validators of that
\* answer (its ETag and Last-Modified headers), and a 304 answer leaves the
\* source's sidecar record equal to the prior record.
C13_SidecarUpdateRule ==
    \A p \in procs :
        Idle(p) =>
            \A answers \in AnswerVectors(sources, FALSE, TRUE, loadMeta(sidecar)) :
                \A R \in {Run(SmartUpdate(World, p), p, sources, FALSE, answers, {}, {})} :
                    R.loc[p].acquired =>
                        \A i \in DOMAIN answers :
                            LET a == answers[i]
                                r == R.loc[p].results[i]
                                s == sources[i]
                            IN  /\ (a.kind = "http" /\ a.status = StatusOK /\ Changed(r))
                                    => /\ R.sidecar.exists /\ R.sidecar.bytes # <<>>
                                       /\ s \in loadMeta(R.sidecar).keys
                                       /\ loadMeta(R.sidecar).rec[s].ETag = a.etag
                                       /\ loadMeta(R.sidecar).rec[s].LastModified = a.lastmod
                                /\ (a.kind = "http" /\ a.status = StatusNotModified)
                                    => /\ Unchanged(r)
                                       /\ R.sidecar.exists /\ R.sidecar.bytes # <<>>
                                       /\ s \in loadMeta(sidecar).keys
                                       /\ s \in loadMeta(R.sidecar).keys
                                       /\ loadMeta(R.sidecar).rec[s]
                                             = loadMeta(sidecar).rec[s]

\* smartUpdate has returned after a 304 for the first source and a 200 for
\* the second, and the sidecar holds the second validator of the second
\* source.
C13_Witness ==
    \E p \in procs :
        /\ pc[p] = "done" /\ loc[p].op = "smart" /\ loc[p].acquired
        /\ Len(loc[p].results) = 2
        /\ Unchanged(loc[p].results[1])
        /\ Changed(loc[p].results[2])
        /\ loc[p].results[2].Meta.ETag = "e3"
        /\ sidecar.exists /\ sidecar.bytes # <<>>
        /\ loadMeta(sidecar).keys = {SrcA, SrcB}
        /\ loadMeta(sidecar).rec[SrcA].ETag = "e1"
        /\ loadMeta(sidecar).rec[SrcB].ETag = "e3"
        /\ loadMeta(sidecar).rec[SrcB].LastModified = "m3"

\* C14: after an update call that returns success having published, and
\* after a smartUpdate call that returns success with at least one source
\* modified, isValid() is true: the primary exists and is younger than TTL.
C14_ValidAfterPublish ==
    \A p \in procs :
        Idle(p) =>
            /\ \A force \in BOOLEAN :
                  \A R \in UpdateOutcomes(World, p, force) :
                      (R.loc[p].err = NoErr /\ R.loc[p].renamed)
                      => /\ IsValid(R.primary)
                         /\ QueryIsValid(R, p).loc[p].ok
            /\ \A R \in SmartUpdateOutcomes(World, p) :
                  (/\ R.loc[p].err = NoErr
                   /\ R.loc[p].acquired
                   /\ \E i \in DOMAIN R.loc[p].results : Changed(R.loc[p].results[i]))
                  => /\ IsValid(R.primary)
                     /\ QueryIsValid(R, p).loc[p].ok

\* A forced update has returned success after publishing, and the primary
\* is valid.
C14_Witness ==
    \E p \in procs :
        /\ pc[p] = "done" /\ loc[p].op = "update" /\ loc[p].force
        /\ loc[p].err = NoErr /\ loc[p].renamed
        /\ IsValid(primary)

\* C15: update(force=false) on a valid cache is a no-op: it acquires no
\* lock, starts no fetch, returns success and leaves the primary, the
\* sidecar and the lock file unchanged; so update(force=true) followed by
\* update(force=false) leaves the primary exactly as the first call
\* published it.
C15_UpdateNoOpWhenValid ==
    \A p \in procs :
        Idle(p) =>
            /\ IsValid(primary) =>
                  \A R \in UpdateOutcomes(World, p, FALSE) :
                      /\ R.pc[p] = "done"
                      /\ ~R.loc[p].acquired
                      /\ ~R.loc[p].fetched
                      /\ R.loc[p].err = NoErr
                      /\ R.primary = primary
                      /\ R.sidecar = sidecar
                      /\ R.lock = lock
                      /\ R.tmp = tmp
            /\ \A R1 \in UpdateOutcomes(World, p, TRUE) :
                  (R1.loc[p].err = NoErr /\ R1.loc[p].renamed) =>
                      \A R2 \in UpdateOutcomes(R1, p, FALSE) :
                          /\ R2.loc[p].err = NoErr
                          /\ ~R2.loc[p].acquired
                          /\ R2.primary = R1.primary
                          /\ R2.sidecar = R1.sidecar
                          /\ R2.lock = R1.lock

\* update(force=false) has returned success without taking the lock or
\* fetching, on a valid primary and next to a fresh lock of someone else.
C15_Witness ==
    \E p \in procs :
        /\ pc[p] = "done" /\ loc[p].op = "update" /\ ~loc[p].force
        /\ loc[p].err = NoErr /\ ~loc[p].acquired /\ ~loc[p].fetched
        /\ IsValid(primary)
        /\ lock.exists /\ LockIsFresh(lock)

\* What the fetch of slot i returns for its own source, metadata, context
\* and answer.
OwnResult(i) ==
    Result(sources[i],
           FetchWithMeta(fetchAll.w[i].ctx, sources[i],
                         srcMetaOf(fetchAll.hasMeta, fetchAll.meta, sources[i]),
                         fetchAll.w[i].answer))

\* C16: fetchAll returns a vector as long as the source list in which, for
\* every position i and whatever the order in which the workers complete,
\* slot i holds the result of fetching sources[i] and names sources[i].
C16_IndexCorrelated ==
    fetchAll.phase = "returned" =>
        /\ Len(fetchAll.out) = Len(sources)
        /\ \A i \in 1..Len(sources) :
              /\ fetchAll.out[i].Source = sources[i]
              /\ fetchAll.out[i] = OwnResult(i)
        /\ \A c \in BOOLEAN :
              (\A i \in 1..Len(sources) : fetchAll.w[i].ctx = c) =>
                  fetchAll.out
                    = FetchAllWithMeta(c, sources, fetchAll.hasMeta, fetchAll.meta,
                                       [i \in 1..Len(sources) |-> fetchAll.w[i].answer])

\* fetchAll has returned the results of three sources whose workers
\* completed last to first, the first of them with an error.
C16_Witness ==
    /\ fetchAll.phase = "returned"
    /\ sources = <<SrcL, SrcA, SrcB>>
    /\ fetchAll.order = <<3, 2, 1>>
    /\ Failed(fetchAll.out[1])
    /\ Changed(fetchAll.out[2])
    /\ Unchanged(fetchAll.out[3])

\* C17: in fetchAll the failure of one source's fetch (transport, status,
\* decode or cancellation) is recorded in that source's slot only: at every
\* moment each slot whose worker has stored holds that worker's own result,
\* each other slot is still empty, and a failed fetch leaves the slots of
\* the fetches that succeeded without error and with their data.
C17_FailureIsolation ==
    \A i \in DOMAIN fetchAll.w :
        /\ fetchAll.w[i].pc = "done" => fetchAll.results[i] = OwnResult(i)
        /\ fetchAll.w[i].pc # "done" => fetchAll.results[i] = ZeroResult
        /\ (fetchAll.w[i].pc = "done" /\ Failed(OwnResult(i))) =>
              /\ Failed(fetchAll.results[i])
              /\ \A j \in DOMAIN fetchAll.w \ {i} :
                    (fetchAll.w[j].pc = "done" /\ ~Failed(OwnResult(j))) =>
                        /\ fetchAll.results[j].Err = NoErr
                        /\ fetchAll.results[j].Data = OwnResult(j).Data
                        /\ fetchAll.results[j].Meta = OwnResult(j).Meta

\* fetchAll has returned after the first worker stored a decode error and
\* the second, after it, stored a document; the context was not cancelled.
C17_Witness ==
    /\ fetchAll.phase = "returned"
    /\ ~fetchAll.ctxDone
    /\ sources = <<SrcA, SrcB>>
    /\ fetchAll.order = <<1, 2>>
    /\ fetchAll.out[1].Err = "decoding response"
    /\ Changed(fetchAll.out[2])
    /\ ~fetchAll.out[2].Data.nil

\* The URLs given for banner b across the documents ds, in input order and
\* each list left to right.
RECURSIVE Given(_, _)
Given(ds, b) ==
    IF ds = <<>> THEN <<>>
    ELSE (IF ~Head(ds).nil /\ b \in Head(ds).keys THEN Head(ds).urls[b] ELSE <<>>)
         \o Given(Tail(ds), b)

\* The elements of s that occur at no earlier position, from position i on.
RECURSIVE FirstSeen(_, _)
FirstSeen(s, i) ==
    IF i > Len(s) THEN <<>>
    ELSE (IF \A j \in 1..(i - 1) : s[j] # s[i] THEN <<s[i]>> ELSE <<>>)
         \o FirstSeen(s, i + 1)

\* C18: for every input vector and every banner b of merge's output,
\* urls(b) has no duplicate and lists exactly the distinct URLs given for b
\* across the inputs, in the order of their first occurrence; the banners
\* of the output are those of the inputs.
C18_MergeDedupOrder ==
    mergeCall.called =>
        LET ds == mergeCall.datasets
            out == mergeCall.out
        IN  /\ out.keys = UNION { ds[i].keys : i \in { j \in DOMAIN ds : ~ds[j].nil } }
            /\ \A b \in out.keys :
                  /\ \A i, j \in DOMAIN out.urls[b] :
                        i # j => out.urls[b][i] # out.urls[b][j]
                  /\ { out.urls[b][i] : i \in DOMAIN out.urls[b] }
                        = { Given(ds, b)[i] : i \in DOMAIN Given(ds, b) }
                  /\ out.urls[b] = FirstSeen(Given(ds, b), 1)

\* Merge has returned a banner with three URLs taken from three documents,
\* one of which lists a URL twice and another repeats a URL of the first.
C18_Witness ==
    /\ mergeCall.called
    /\ Len(mergeCall.datasets) = 3
    /\ mergeCall.datasets[1].urls["K1"] = <<"u2", "u1">>
    /\ mergeCall.datasets[2].urls["K1"] = <<"u1", "u1", "u3">>
    /\ mergeCall.datasets[3] = DocA
    /\ mergeCall.out.urls["K1"] = <<"u2", "u1", "u3">>

\* C19: merge is associative: for all documents a, b, c,
\* merge([a, merge([b, c])]) equals merge([a, b, c]), and so for every way
\* of merging a tail of the vector first.
C19_MergeAssociative ==
    mergeCall.called =>
        LET ds == mergeCall.datasets
        IN  \A k \in 0..Len(ds) :
                Merge(SubSeq(ds, 1, k) \o <<Merge(SubSeq(ds, k + 1, Len(ds)))>>)
                  = mergeCall.out

\* Merge has returned for three documents that share URLs, the first of
\* another version.
C19_Witness ==
    /\ mergeCall.called
    /\ mergeCall.datasets = <<DocC, DocB, DocA>>
    /\ mergeCall.out.keys = {"K1", "K2"}
    /\ mergeCall.out.urls["K1"] = <<"u2", "u3", "u1">>
    /\ mergeCall.out.urls["K2"] = <<"u3", "u1">>

\* C20: merge skips nil entries and always outputs version 1 whatever the
\* versions of its inputs: merge of a vector equals merge of the vector
\* without its nil entries, and merge of an empty or all-nil vector is the
\* document of version 1 with no banner.
C20_MergeNilAndVersion ==
    mergeCall.called =>
        LET ds == mergeCall.datasets
            out == mergeCall.out
        IN  /\ ~out.nil
            /\ out.version = 1
            /\ out = Merge(SelectSeq(ds, LAMBDA d : ~d.nil))
            /\ (\A i \in DOMAIN ds : ds[i].nil) =>
                  /\ out.keys = {}
                  /\ out = Doc(1, {}, NoUrls)

\* Merge has returned version 1 for a nil entry between a document of
\* version 2 and one of version 1.
C20_Witness ==
    /\ mergeCall.called
    /\ mergeCall.datasets = <<DocC, NilDoc, DocA>>
    /\ mergeCall.out.version = 1
    /\ mergeCall.out.keys = {"K1", "K2"}

\* C21: write round trip.  After write(d) returns success, decoding the
\* primary yields a document equal to d: same version, same banner keys,
\* same URL sequence per banner.
C21_WriteRoundTrip ==
    \A p \in procs :
        Idle(p) =>
            \A d \in WriteDocs :
                \A R \in {write(World, p, d, NoErr)} :
                    R.loc[p].err = NoErr =>
                        /\ R.loc[p].renamed
                        /\ R.primary.exists
                        /\ Decode(R.primary.bytes).ok
                        /\ Decode(R.primary.bytes).doc = d
                        /\ loadExistingBanners(R.primary) = d

\* write has returned success for a document of version 2 with a repeated
\* URL, and the primary decodes to it.
C21_Witness ==
    \E p \in procs :
        /\ pc[p] = "done" /\ loc[p].op = "write"
        /\ loc[p].err = NoErr /\ loc[p].renamed
        /\ primary.exists /\ primary.age = 0
        /\ Decode(primary.bytes).ok
        /\ Decode(primary.bytes).doc = DocC

\* C22: persist failure.  If write fails at any step before the rename
\* completes (temp create, encode, fsync, close, rename), the error is
\* returned, the primary is left with its previous bytes and mtime, and the
\* temporary file does not exist when write returns.
C22_PersistFailure ==
    \A p \in procs :
        Idle(p) =>
            \A d \in WriteDocs, fault \in WriteFaults \ {"creating cache dir"} :
                \A R \in {write(World, p, d, fault)} :
                    /\ R.pc[p] = "done"
                    /\ R.loc[p].err = fault
                    /\ ~R.loc[p].renamed
                    /\ R.primary = primary
                    /\ ~R.tmp.exists

\* C23: isValid() returns true exactly when the primary exists and
\* now - mtime < TTL; it returns false when the primary is absent or its
\* age is greater than or equal to TTL.  It changes no file.
C23_IsValidExactly ==
    \A p \in procs :
        Idle(p) =>
            \A R \in {QueryIsValid(World, p)} :
                /\ R.loc[p].ok <=> (primary.exists /\ primary.age < TTL)
                /\ ~primary.exists => ~R.loc[p].ok
                /\ (primary.exists /\ primary.age >= TTL) => ~R.loc[p].ok
                /\ (primary.exists /\ primary.age = TTL - 1) => R.loc[p].ok
                /\ R.primary = primary /\ R.sidecar = sidecar
                /\ R.lock = lock /\ R.tmp = tmp

\* isValid() has answered false for a primary whose age is exactly TTL.
C23_Witness ==
    \E p \in procs :
        /\ pc[p] = "done" /\ loc[p].op = "isValid"
        /\ ~loc[p].ok
        /\ primary.exists /\ primary.age = TTL
        /\ Decode(primary.bytes).ok

\* C24: a Present-Invalid primary (zero-byte, undecodable, or with an mtime
\* in the future) is reported invalid by both queries: stats().valid is
\* false and isValid() is false, and ensure() does not take it for a
\* usable cache: it goes on to update.
C24_PresentInvalid ==
    \A p \in procs :
        (/\ Idle(p)
         /\ primary.exists
         /\ (primary.bytes = <<>> \/ ~Decode(primary.bytes).ok \/ primary.age < 0))
        => /\ ~QueryStats(World, p).loc[p].stats.Valid
           /\ ~QueryIsValid(World, p).loc[p].ok
           /\ Ensure(World, p).pc[p] # "done"

\* C25: clear() removes the primary and succeeds whether or not it existed:
\* from any state the primary becomes absent (isValid false, path and uri
\* return none), and a second clear() right after the first succeeds too.
C25_ClearIdempotent ==
    \A p \in procs :
        Idle(p) =>
            \A R \in {Clear(World, p)} :
                /\ R.pc[p] = "done" /\ R.loc[p].err = NoErr
                /\ ~R.primary.exists
                /\ ~QueryIsValid(R, p).loc[p].ok
                /\ ~QueryPath(R, p).loc[p].ok
                /\ ~URI(R.primary)
                /\ \A R2 \in {Clear(R, p)} :
                      /\ R2.pc[p] = "done" /\ R2.loc[p].err = NoErr
                      /\ ~R2.primary.exists

\* clear() has returned without error and the primary is gone.
C25_Witness ==
    \E p \in procs :
        /\ pc[p] = "done" /\ loc[p].op = "clear" /\ loc[p].err = NoErr
        /\ ~primary.exists /\ ~IsValid(primary) /\ ~Path(primary)

\* What a caller can observe of a finished call of p: the files it left and
\* what it returned and did on its way.
Observed(R, p) ==
    [lock |-> R.lock, primary |-> R.primary, tmp |-> R.tmp, sidecar |-> R.sidecar,
     pc |-> R.pc[p], err |-> R.loc[p].err, acquired |-> R.loc[p].acquired,
     fetched |-> R.loc[p].fetched, renamed |-> R.loc[p].renamed]

\* C26: ensure() is a no-op (no lock, no fetch, no file change, success)
\* when isValid() is true; otherwise it behaves exactly as
\* update(force=false): the same outcomes, its error when every source
\* fails, and a valid primary when it succeeds.
C26_EnsureIsUpdate ==
    \A p \in procs :
        Idle(p) =>
            \E E \in {EnsureOutcomes(World, p)} :
                /\ IsValid(primary) =>
                      \A R \in E :
                          /\ R.pc[p] = "done" /\ R.loc[p].err = NoErr
                          /\ ~R.loc[p].acquired /\ ~R.loc[p].fetched
                          /\ R.lock = lock /\ R.primary = primary
                          /\ R.tmp = tmp /\ R.sidecar = sidecar
                /\ ~IsValid(primary) =>
                      /\ {Observed(R, p) : R \in E}
                            = {Observed(R, p) : R \in UpdateOutcomes(World, p, FALSE)}
                      /\ \A R \in E :
                          /\ R.loc[p].acquired /\ R.loc[p].fetched
                          /\ (\A i \in 1..Len(R.loc[p].results) :
                                 R.loc[p].results[i].Err # NoErr)
                             => R.loc[p].err = ErrAllSourcesFailed
                          /\ R.loc[p].err = NoErr => IsValid(R.primary)

\* ensure() met a primary that was not valid, fetched, and left a valid
\* primary behind.
C26_Witness ==
    \E p \in procs :
        /\ pc[p] = "done" /\ loc[p].op = "ensure"
        /\ loc[p].fetched /\ loc[p].renamed /\ loc[p].err = NoErr
        /\ IsValid(primary)

\* The calls of update(force=true) and smartUpdate by p whose context is
\* cancelled before the call, each with the answers its fetches met.
CancelledCalls(W, p) ==
    { [answers |-> answers,
       R |-> Run(Update(W, p, TRUE), p, sources, TRUE, answers, {}, {})] :
        answers \in AnswerVectors(sources, TRUE, FALSE, EmptyMetaCache) }
    \cup
    { [answers |-> answers,
       R |-> Run(SmartUpdate(W, p), p, sources, TRUE, answers, {}, {})] :
        answers \in AnswerVectors(sources, TRUE, TRUE, loadMeta(W.sidecar)) }

\* C27 as stated: when update(force=true) or smartUpdate is invoked with an
\* already-cancelled context, every result slot carries an error and the
\* operation returns AllSourcesFailed, for any list of sources (remote or
\* local).
C27_CancelledAllFail ==
    \A p \in procs :
        Idle(p) =>
            \A c \in CancelledCalls(World, p) :
                c.R.loc[p].acquired =>
                    /\ \A i \in 1..Len(sources) : c.R.loc[p].results[i].Err # NoErr
                    /\ c.R.loc[p].err = ErrAllSourcesFailed

\* C27, amended: with an already-cancelled context every slot of a remote
\* source carries an error, while a local source is read all the same and
\* its slot carries what the file gives.  update(force=true) returns
\* AllSourcesFailed exactly when no slot succeeded; smartUpdate does so
\* exactly when no slot succeeded and the primary is not fresh, and returns
\* (false, none) when no slot succeeded and the primary is fresh.
C27_CancelledRemoteFail ==
    \A p \in procs :
        Idle(p) =>
            \A c \in CancelledCalls(World, p) :
                c.R.loc[p].acquired =>
                    \E res \in {c.R.loc[p].results} :
                        /\ Len(res) = Len(sources)
                        /\ \A i \in 1..Len(sources) :
                              IF isLocalPath(sources[i])
                              THEN /\ res[i].Err = fetchLocal(c.answers[i]).Err
                                   /\ res[i].Data = fetchLocal(c.answers[i]).Data
                              ELSE res[i].Err # NoErr
                        /\ \E allFailed \in {\A i \in 1..Len(res) : res[i].Err # NoErr} :
                              /\ (c.R.loc[p].err = ErrAllSourcesFailed)
                                    <=> (/\ allFailed
                                         /\ (c.R.loc[p].op = "smart" => ~IsValid(primary)))
                              /\ (allFailed /\ c.R.loc[p].op = "smart" /\ IsValid(primary))
                                    => (c.R.loc[p].err = NoErr /\ ~c.R.loc[p].updated)
                              /\ ~allFailed => (c.R.loc[p].err = NoErr /\ c.R.loc[p].renamed)

\* A call whose context was cancelled before it started has read its local
\* source and published the document.
C27_Witness ==
    \E p \in procs :
        /\ pc[p] = "done" /\ loc[p].ctxDone /\ loc[p].fetched
        /\ isLocalPath(sources[1])
        /\ loc[p].results[1].Err = NoErr
        /\ loc[p].err = NoErr /\ loc[p].renamed
        /\ Decode(primary.bytes).doc = Merge(<<DocC>>)

\* The answer a is a 200 response with a document.
Is200(a) == a.kind = "http" /\ a.status = StatusOK /\ DecoderDecode(a.body).ok

\* C28: a forced update overwrites the metadata sidecar.  After
\* update(force=true) succeeds, the sidecar holds exactly the validators
\* observed in that update's 200 responses, and no validator recorded
\* before the update survives.
C28_ForcedUpdateOverwritesSidecar ==
    \A p \in procs :
        Idle(p) =>
            \A answers \in AnswerVectors(sources, FALSE, FALSE, EmptyMetaCache) :
                \A R \in {Run(Update(World, p, TRUE), p, sources, FALSE, answers, {}, {})} :
                    (R.loc[p].acquired /\ R.loc[p].err = NoErr) =>
                        \E m \in {loadMeta(R.sidecar)} :
                            /\ \A i \in 1..Len(sources) :
                                  Is200(answers[i]) =>
                                      /\ sources[i] \in m.keys
                                      /\ m.rec[sources[i]].ETag = answers[i].etag
                                      /\ m.rec[sources[i]].LastModified = answers[i].lastmod
                            /\ \A s \in m.keys :
                                  \E i \in 1..Len(sources) :
                                      sources[i] = s /\ Is200(answers[i])

\* C29: explicit clear destroys the cache artifact set.  After clear()
\* returns, neither the primary nor the metadata sidecar exists, so no
\* validator recorded before the clear is used by a later smartUpdate:
\* its requests are unconditional.
C29_ClearDestroysArtifactSet ==
    \A p \in procs :
        Idle(p) =>
            \A R \in {Clear(World, p)} :
                /\ ~R.primary.exists
                /\ ~R.sidecar.exists
                /\ \A i \in 1..Len(sources) :
                      \E req \in {Request(srcMetaOf(TRUE, loadMeta(R.sidecar), sources[i]))} :
                          req.IfNoneMatch = "" /\ req.IfModifiedSince = ""

\* C30: fork/join of the parallel driver.  Every result slot is written
\* exactly once, by the worker started for that position, while the driver
\* waits; the driver returns only after every worker has finished, with
\* every slot written, and no slot changes after it has returned.
C30_ForkJoin ==
    [][ /\ \A k \in DOMAIN fetchAll.results :
              fetchAll'.results[k] # fetchAll.results[k] =>
                  /\ fetchAll.phase = "running"
                  /\ fetchAll.w[k].pc = "store" /\ fetchAll'.w[k].pc = "done"
                  /\ \A n \in 1..Len(fetchAll.order) : fetchAll.order[n] # k
                  /\ fetchAll'.order = Append(fetchAll.order, k)
                  /\ fetchAll'.results[k].Source = sources[k]
                  /\ \A j \in DOMAIN fetchAll.results \ {k} :
                        fetchAll'.results[j] = fetchAll.results[j]
        /\ (fetchAll.phase = "running" /\ fetchAll'.phase = "returned") =>
              /\ \A k \in 1..Len(sources) :
                    /\ fetchAll.w[k].pc = "done"
                    /\ Cardinality({n \in 1..Len(fetchAll.order) : fetchAll.order[n] = k}) = 1
              /\ Len(fetchAll.order) = Len(sources)
              /\ fetchAll'.out = fetchAll.results
        /\ fetchAll.phase = "returned" =>
              /\ fetchAll'.results = fetchAll.results
              /\ fetchAll'.out = fetchAll.out
      ]_vars

\* FetchAllWithMeta has returned a vector of three slots that the workers
\* wrote in another order than the order of the sources.
C30_Witness ==
    /\ fetchAll.phase = "returned"
    /\ Len(fetchAll.out) = 3
    /\ fetchAll.order = <<3, 1, 2>>
    /\ fetchAll.out = fetchAll.results
    /\ \A k \in 1..3 : fetchAll.out[k].Source = sources[k]

\* Every goroutine of the call's FetchAllWithMeta is done and the caller has
\* its vector.
AllJoined == fetchAll.phase = "joined" /\ \A i \in DOMAIN fetchAll.w : fetchAll.w[i].pc = "done"

\* C31: publication ordering.  In every update/smartUpdate call the rename
\* of the primary happens only after every fetch worker of that call has
\* completed, and never twice: the primary changes only in the rename step
\* of the call, that step is taken at most once, nothing but the release
\* follows it, and a call that returns success without it is a smartUpdate
\* that found nothing modified.
C31_PublicationOrdering ==
    [][ \A p \in procs :
          /\ ((primary' # primary /\ primary' # OlderFile(primary))
               \/ (loc'[p].renamed /\ ~loc[p].renamed)) =>
                 /\ pc[p] = "w_rename" /\ pc'[p] = "release"
                 /\ ~loc[p].renamed /\ loc'[p].renamed
                 /\ loc[p].fetched /\ AllJoined
                 /\ primary'.bytes = tmp.bytes
          /\ loc[p].renamed =>
                 /\ loc'[p].renamed
                 /\ pc[p] \in {"release", "done"}
                 /\ primary' \in {primary, OlderFile(primary)}
          /\ (pc[p] = "release" /\ pc'[p] = "done"
               /\ loc[p].acquired /\ loc[p].err = NoErr /\ ~loc[p].renamed) =>
                 loc[p].op = "smart" /\ ~loc[p].anyModified
      ]_vars

\* A call has fetched two sources, one of which failed, and has published
\* the document of the other by its one rename.
C31_Witness ==
    \E p \in procs :
        /\ pc[p] = "done" /\ loc[p].renamed /\ loc[p].err = NoErr
        /\ AllJoined
        /\ Len(loc[p].results) = 2
        /\ loc[p].results[1].Err # NoErr /\ loc[p].results[2].Err = NoErr
        /\ primary.exists /\ Decode(primary.bytes).doc = Merge(<<DocA>>)

\* The steps that read or write the sidecar.
SidecarSteps == {"load_meta", "save_meta", "save_meta_w"}

\* C32: the metadata sidecar is read and written only between the calling
\* process's successful acquireLock and its releaseLock.  A process at a
\* loadMeta or saveMeta step has acquired the lock and has not reached its
\* release; the sidecar changes only in such a step, and the metadata a
\* call works with is read only in such a step.
C32_SidecarUnderLock ==
    [][ /\ \A p \in procs :
              /\ pc[p] \in SidecarSteps =>
                    /\ loc[p].op = "smart" /\ loc[p].acquired
                    /\ pc[p] \in LockedSection \ {"release"}
              /\ loc'[p].meta # loc[p].meta =>
                    \/ /\ pc[p] = "load_meta" /\ loc[p].acquired
                       /\ loc'[p].meta = loadMeta(sidecar)
                    \/ pc'[p] = "done" \/ pc[p] \in {"idle", "done"}
        /\ sidecar' # sidecar =>
              \E p \in procs :
                  /\ pc[p] \in {"save_meta", "save_meta_w"} /\ pc'[p] # pc[p]
                  /\ loc[p].acquired
      ]_vars

\* A smartUpdate that acquired the lock has read the sidecar of an earlier
\* call, is in the middle of saving the new one, and the lock file is its
\* own.
C32_Witness ==
    \E p \in procs :
        /\ pc[p] = "save_meta_w" /\ loc[p].acquired
        /\ loc[p].meta # EmptyMetaCache
        /\ sidecar = TruncatedSidecar
        /\ lock.exists /\ lock.pid = p

\* C33: the metadata sidecar is published by atomic replace like the
\* primary.  At every instant the sidecar path holds either the complete
\* previous sidecar or the complete new one, never a truncated or partial
\* file.
C33_SidecarAtomicReplace ==
    sidecar.exists => DecodeMeta(sidecar.bytes).ok

\* The prior validator record that goroutine i passed to FetchWithMeta.
Prior(i) == srcMetaOf(fetchAll.hasMeta, fetchAll.meta, sources[i])

\* C34: remote fetch disposition.  A 304 response yields no data, the
\* caller's prior validator record unchanged, modified = false and no
\* error; a 200 response with a decodable body yields the document, the
\* validators of the ETag and Last-Modified response headers and modified =
\* true; any other status and any transport, decode or cancellation failure
\* yields an error with no data and no validators.  If-None-Match and
\* If-Modified-Since are sent only for non-empty prior validators.
C34_RemoteDisposition ==
    \A i \in DOMAIN fetchAll.w :
        (fetchAll.w[i].pc # "fetch" /\ ~isLocalPath(sources[i])) =>
            \E a \in {fetchAll.w[i].answer}, got \in {fetchAll.w[i].got} :
                /\ IF fetchAll.w[i].ctx \/ a.kind = "neterr"
                   THEN got.Err # NoErr /\ got.Data = NilDoc /\ got.Meta = NilMeta
                        /\ ~got.Modified
                   ELSE IF a.status = StatusNotModified
                   THEN got.Err = NoErr /\ got.Data = NilDoc /\ got.Meta = Prior(i)
                        /\ ~got.Modified
                   ELSE IF a.status = StatusOK /\ DecoderDecode(a.body).ok
                   THEN got.Err = NoErr /\ got.Data = DecoderDecode(a.body).doc
                        /\ ~got.Meta.nil /\ got.Meta.ETag = a.etag
                        /\ got.Meta.LastModified = a.lastmod /\ got.Modified
                   ELSE got.Err # NoErr /\ got.Data = NilDoc /\ got.Meta = NilMeta
                        /\ ~got.Modified
                /\ Request(Prior(i)).IfNoneMatch # ""
                      <=> (~Prior(i).nil /\ Prior(i).ETag # "")
                /\ Request(Prior(i)).IfModifiedSince # ""
                      <=> (~Prior(i).nil /\ Prior(i).LastModified # "")
                /\ (Request(Prior(i)).IfNoneMatch # "" => Request(Prior(i)).IfNoneMatch = Prior(i).ETag)

\* Of two remote sources fetched with prior validators, one answered 304
\* and its record came back unchanged, and the other answered 200 under a
\* new ETag; the second had no Last-Modified on record, so that header was
\* not sent.
C34_Witness ==
    \E i, j \in DOMAIN fetchAll.w :
        /\ fetchAll.w[i].pc = "done" /\ fetchAll.w[j].pc = "done"
        /\ fetchAll.w[i].answer = NotModified
        /\ fetchAll.w[i].got.Meta = SourceMeta("e1", "m1")
        /\ ~fetchAll.w[i].got.Modified /\ fetchAll.w[i].got.Err = NoErr
        /\ Prior(j) = SourceMeta("e2", "")
        /\ Request(Prior(j)).IfModifiedSince = ""
        /\ fetchAll.w[j].got.Modified /\ fetchAll.w[j].got.Meta.ETag = "e3"

\* C35: crash recovery.  The lock file of a holder that terminated without
\* releasing does not block the cache forever: its age reaches the
\* staleness threshold, and an update/smartUpdate call that tests the lock
\* once it has reached the threshold acquires the lock and proceeds.
C35_StaleLockRecovery ==
    /\ (lock.exists /\ lock.pid = 2) ~> (lock.exists => lock.age >= LockTimeout)
    /\ \A p \in {1} :
          (pc[p] = "acq_stat" /\ lock.exists /\ lock.pid = 2 /\ lock.age >= LockTimeout)
              ~> (/\ loc[p].acquired /\ loc[p].overrode
                  /\ pc[p] \in {"load_meta", "fetch"}
                  /\ lock.exists /\ lock.pid = p)

\* A call has removed the stale lock of the killed invocation, holds its
\* own, and has published.
C35_Witness ==
    \E p \in procs :
        /\ pc[p] = "release" /\ loc[p].overrode /\ loc[p].acquired
        /\ loc[p].renamed
        /\ lock.exists /\ lock.pid = p

\* The document d is in the file f: f decodes, and every URL that d lists
\* for a banner is listed for that banner in f.
Holds(f, d) ==
    /\ f.exists /\ Decode(f.bytes).ok
    /\ \A b \in d.keys :
          /\ b \in Decode(f.bytes).doc.keys
          /\ \A n \in 1..Len(d.urls[b]) : InSeq(d.urls[b][n], Decode(f.bytes).doc.urls[b])

\* C36: sidecar/primary consistency.  In every state reached by update,
\* smartUpdate and clear calls with sources that may fail or answer 304,
\* if the sidecar records a validator for a source then the primary exists
\* and contains every banner-to-URL entry of the document that the source
\* served with that validator.
C36_SidecarPrimaryConsistent ==
    (\A p \in procs : pc[p] \in {"idle", "done"}) =>
        \A s \in loadMeta(sidecar).keys :
            \A a \in Serves(s) :
                (/\ ~isLocalPath(s)
                 /\ loadMeta(sidecar).rec[s].ETag = a.etag
                 /\ loadMeta(sidecar).rec[s].LastModified = a.lastmod)
                => Holds(primary, Decode(a.body).doc)

\* C37: lock ownership on release.  releaseLock executed by process p
\* removes only the lock file that p itself created: when the lock file is
\* the one of another process q that is in its locked section, also after
\* q took over p's lock as stale while p was still running, the release of
\* p leaves it in place.
C37_ReleaseOwnLockOnly ==
    \A p, q \in procs :
        (/\ pc[p] = "release" /\ loc[p].acquired
         /\ q # p /\ Holding(q) /\ loc[q].acquired
         /\ lock.exists /\ lock.pid = q)
        => Release(World, p).lock = lock

\* C38: well-formed primary.  Starting from an absent cache, after any
\* sequence of update, smartUpdate, ensure and clear calls, failed ones
\* included, the primary, whenever it exists, decodes as an index document
\* with version 1 in which no banner's URL list contains a duplicate.
C38_WellFormedPrimary ==
    primary.exists =>
        \E d \in {Decode(primary.bytes)} :
            /\ d.ok /\ ~d.doc.nil
            /\ d.doc.version = MergedVersion
            /\ \A b \in d.doc.keys :
                  \A m, n \in 1..Len(d.doc.urls[b]) :
                      d.doc.urls[b][m] = d.doc.urls[b][n] => m = n

\* A call has published the document of the local source, which carries
\* version 2 and lists one URL twice: the primary has version 1 and the URL
\* once.
C38_Witness ==
    \E p \in procs :
        /\ pc[p] = "done" /\ loc[p].renamed
        /\ sources = <<SrcL>>
        /\ loc[p].results[1].Data = DocC
        /\ primary.exists
        /\ Decode(primary.bytes).doc = Doc(MergedVersion, {"K2"}, [NoUrls EXCEPT !["K2"] = <<"u3">>])

\* The step in which the smartUpdate of p replaces a decodable primary,
\* with at least one source that answered 304.
Replaces304(p) ==
    /\ pc[p] = "w_rename" /\ loc[p].op = "smart"
    /\ ~loc[p].renamed /\ loc'[p].renamed
    /\ \E i \in DOMAIN loc[p].results : Unchanged(loc[p].results[i])
    /\ Usable(primary)

\* Every banner-to-URL entry of the document old is in the document new.
KeepsEntries(old, new) ==
    \A b \in old.keys :
        /\ b \in new.keys
        /\ \A n \in 1..Len(old.urls[b]) : InSeq(old.urls[b][n], new.urls[b])

\* The URLs of old come in new in the order they have in old.
KeepsOrder(old, new) ==
    \A b \in old.keys :
        \A m, n \in 1..Len(old.urls[b]) :
            m < n => \A j, k \in 1..Len(new.urls[b]) :
                        (new.urls[b][j] = old.urls[b][m] /\ new.urls[b][k] = old.urls[b][n])
                            => j < k

\* C39 as stated: when smartUpdate replaces the primary and at least one
\* source answered 304 while a decodable primary existed, every
\* banner-to-URL entry of the prior primary is still present in the new
\* primary, with the prior entries' relative order per banner kept.
C39_GrowthKeepsOrder ==
    [][ \A p \in procs :
          Replaces304(p) =>
              /\ Usable(primary')
              /\ KeepsEntries(Decode(primary.bytes).doc, Decode(primary'.bytes).doc)
              /\ KeepsOrder(Decode(primary.bytes).doc, Decode(primary'.bytes).doc)
      ]_vars

\* C39, amended: every banner-to-URL entry of the prior primary is still
\* present in the new primary, so entries a modified source no longer
\* serves are not removed.  The prior entries keep their relative order
\* when no modified source comes before the first source that answered
\* 304; otherwise the URLs of the modified sources before it come first, in
\* the order of those sources.
C39_GrowthKeepsEntries ==
    [][ \A p \in procs :
          Replaces304(p) =>
              /\ Usable(primary')
              /\ KeepsEntries(Decode(primary.bytes).doc, Decode(primary'.bytes).doc)
              /\ (\A i \in DOMAIN loc[p].results :
                     Changed(loc[p].results[i]) =>
                         \E j \in 1..(i - 1) : Unchanged(loc[p].results[j]))
                  => KeepsOrder(Decode(primary.bytes).doc, Decode(primary'.bytes).doc)
              /\ \A i \in DOMAIN loc[p].results :
                     (Changed(loc[p].results[i])
                      /\ \A j \in 1..(i - 1) : Failed(loc[p].results[j]))
                     => \A b \in loc[p].results[i].Data.keys :
                           /\ loc[p].results[i].Data.urls[b] # <<>>
                           => Decode(primary'.bytes).doc.urls[b][1]
                                = loc[p].results[i].Data.urls[b][1]
      ]_vars

\* A smartUpdate whose first source was modified and whose second answered
\* 304 has replaced a primary that listed u1 before u3 for K2: both are
\* still there, u3 first.
C39_Witness ==
    \E p \in procs :
        /\ pc[p] \in {"release", "done"} /\ loc[p].op = "smart" /\ loc[p].renamed
        /\ Changed(loc[p].results[1]) /\ Unchanged(loc[p].results[2])
        /\ Decode(primary.bytes).doc.urls["K2"] = <<"u3", "u1">>
        /\ Decode(primary.bytes).doc.urls["K1"] = <<"u2", "u3">>

\* C40: termination.  When every source fetch terminates and the workers
\* are scheduled fairly, every update, smartUpdate and ensure call
\* eventually returns, and a lock it acquired is eventually released.
C40_Termination ==
    \A p \in {1} :
        /\ (pc[p] \notin {"idle", "done"}) ~> (pc[p] = "done")
        /\ (pc[p] # "done" /\ loc[p].acquired /\ lock.exists /\ lock.pid = p)
              ~> (pc[p] = "done" /\ ~lock.exists)

\* An ensure call that found the primary expired has taken the lock,
\* waited for its two fetches, published, released the lock and returned.
C40_Witness ==
    \E p \in procs :
        /\ pc[p] = "done" /\ loc[p].op = "ensure"
        /\ loc[p].acquired /\ loc[p].fetched /\ loc[p].renamed
        /\ Len(loc[p].results) = 2
        /\ AllJoined
        /\ ~lock.exists

=============================================================================
